---- MODULE Spec2Model ----
(***************************************************************************)
(* A model of the Rhodi core engine (src/core/src): the traced-document    *)
(* model with its canonical hash, seal and verify (models.rs), the text    *)
(* canonicalizer and block parser (markdown.rs), the verification compiler *)
(* and the lifecycle operations update / publish / revoke (compiler.rs).   *)
(*                                                                         *)
(* Text is a sequence of tokens, every token a string.  A token named in   *)
(* CharCode is one character (its code point is CharCode[token]); any      *)
(* other token is a word: a run of printable ASCII characters that holds   *)
(* no line break and neither starts nor ends with white space.             *)
(*                                                                         *)
(* SHA-256 is collision free: a digest is the value it was computed from.  *)
(* An Ed25519 signature is the pair (signing key, message).                *)
(***************************************************************************)
EXTENDS Integers, Sequences, FiniteSets, TLC

VARIABLES
    doc,      \* the TracedDocument the caller owns (frontmatter fields and body)
    now,      \* the wall clock read by Utc::now()
    pre,      \* the document the last operation was applied to
    last,     \* the last operation: its name, arguments and result
    seals,    \* the version hashes produced by the seals so far, oldest first
    history   \* the names of the mutating operations applied so far, in order

vars == <<doc, now, pre, last, seals, history>>

----------------------------------------------------------------------------
(* Bounds of the model.                                                    *)

\* Lifecycle operations applied to one document in a run.
MaxSteps == 3

\* Last reading of the clock.
MaxTime == 1

----------------------------------------------------------------------------
(* Option<T>.                                                              *)

None == [some |-> FALSE]

Some(v) == [some |-> TRUE, v |-> v]

IsSome(o) == o.some

----------------------------------------------------------------------------
(* Characters.  The code points of the one-character tokens.               *)

CharCode ==
    [ NUL  |-> 0,      \* U+0000, a control character
      TAB  |-> 9,
      LF   |-> 10,
      CR   |-> 13,
      SP   |-> 32,
      NBSP |-> 160,    \* U+00A0, white space that is neither control nor format
      ZWSP |-> 8203,   \* U+200B, zero width space
      BOM  |-> 65279 ] \* U+FEFF

IsChar(t) == t \in DOMAIN CharCode

\* char::is_whitespace (the Unicode White_Space property), used by
\* str::trim, trim_start and trim_end.
is_whitespace(t) ==
    /\ IsChar(t)
    /\ LET c == CharCode[t]
       IN  \/ c \in 9..13
           \/ c \in {32, 133, 160, 5760, 8232, 8233, 8239, 8287, 12288}
           \/ c \in 8192..8202

\* char::is_control (general category Cc).
is_control(t) ==
    /\ IsChar(t)
    /\ LET c == CharCode[t] IN c \in 0..31 \/ c \in 127..159

RECURSIVE trim_end(_)
trim_end(s) ==
    IF s # <<>> /\ is_whitespace(s[Len(s)])
    THEN trim_end(SubSeq(s, 1, Len(s) - 1))
    ELSE s

RECURSIVE trim_start(_)
trim_start(s) ==
    IF s # <<>> /\ is_whitespace(s[1]) THEN trim_start(Tail(s)) ELSE s

trim(s) == trim_start(trim_end(s))

\* str::lines(): split after every LF (split_inclusive), then strip the LF
\* and one CR before it; a last piece without LF is returned whole.
RECURSIVE SplitInclusive(_, _)
SplitInclusive(s, cur) ==
    IF s = <<>> THEN (IF cur = <<>> THEN <<>> ELSE <<cur>>)
    ELSE IF s[1] = "LF"
         THEN <<Append(cur, "LF")>> \o SplitInclusive(Tail(s), <<>>)
         ELSE SplitInclusive(Tail(s), Append(cur, s[1]))

\* The line without the CR that ends it, if any.
strip_cr(l) ==
    IF l # <<>> /\ l[Len(l)] = "CR" THEN SubSeq(l, 1, Len(l) - 1) ELSE l

StripLineEnding(piece) ==
    IF piece # <<>> /\ piece[Len(piece)] = "LF"
    THEN strip_cr(SubSeq(piece, 1, Len(piece) - 1))
    ELSE piece

RECURSIVE strip_lines(_)
strip_lines(pieces) ==
    IF pieces = <<>> THEN <<>>
    ELSE <<StripLineEnding(pieces[1])>> \o strip_lines(Tail(pieces))

lines(s) == strip_lines(SplitInclusive(s, <<>>))

\* [&str]::join("\n")
RECURSIVE join(_)
join(ls) ==
    IF ls = <<>> THEN <<>>
    ELSE IF Len(ls) = 1 THEN ls[1]
    ELSE ls[1] \o <<"LF">> \o join(Tail(ls))

\* The closure of the chars().filter(..) in canonicalize_text: TRUE keeps.
FormatRanges ==
    << <<1536, 1541>>, <<1757, 1757>>, <<1807, 1807>>, <<2208, 2228>>,
       <<2275, 2303>>, <<6158, 6158>>, <<8203, 8207>>, <<8234, 8238>>,
       <<8288, 8303>>, <<65279, 65279>>, <<65520, 65528>>,
       <<69821, 69821>>, <<113824, 113828>>, <<119155, 119162>> >>

\* A filter that keeps every character.
keep_all(t) == TRUE

keep_char(t) ==
    IF ~IsChar(t) THEN TRUE     \* a word: printable ASCII, 32..=126
    ELSE LET code == CharCode[t]
         IN  IF code = 9 \/ code = 10 \/ code = 13 THEN TRUE
             ELSE IF \E i \in 1..Len(FormatRanges) :
                        code >= FormatRanges[i][1] /\ code <= FormatRanges[i][2]
                  THEN FALSE
             ELSE IF code >= 32 /\ code <= 126 THEN TRUE
             ELSE ~is_control(t)

\* .lines().map(|line| line.trim_end()).collect::<Vec<_>>()
RECURSIVE trim_lines(_)
trim_lines(ls) ==
    IF ls = <<>> THEN <<>> ELSE <<trim_end(ls[1])>> \o trim_lines(Tail(ls))

\* The last step of canonicalize_text: a non-empty result ends with LF.
ensure_newline(result) ==
    IF result # <<>> /\ result[Len(result)] # "LF"
    THEN Append(result, "LF")
    ELSE result

canonicalize_text(text) ==
    ensure_newline(SelectSeq(join(trim_lines(lines(text))), keep_char))

----------------------------------------------------------------------------
(* Results and errors (error.rs).  An error is its variant and its text;   *)
(* a Security error carries its sub-variant in "sec".                      *)

Ok(v) == [ok |-> TRUE, v |-> v]

Err(kind, msg) == [ok |-> FALSE, kind |-> kind, msg |-> msg]

SecurityErr(sec, arg) ==
    [ok |-> FALSE, kind |-> "Security", sec |-> sec, arg |-> arg]

\* The error value inside an Err result, as pushed to a report.
ErrorOf(r) == [f \in (DOMAIN r) \ {"ok"} |-> r[f]]

----------------------------------------------------------------------------
(* Protocol versions (version.rs).                                         *)

VERSION_REGISTRY ==
    << <<"1.0", "Current">>, <<"1.1", "Current">>, <<"2.0", "Current">> >>

DEFAULT_PROTOCOL_VERSION == "1.0"

is_version_known(version) ==
    \E i \in 1..Len(VERSION_REGISTRY) : VERSION_REGISTRY[i][1] = version

get_version_status(version) ==
    IF is_version_known(version)
    THEN LET i == CHOOSE j \in 1..Len(VERSION_REGISTRY) :
                      /\ VERSION_REGISTRY[j][1] = version
                      /\ \A h \in 1..(j - 1) : VERSION_REGISTRY[h][1] # version
         IN  VERSION_REGISTRY[i][2]
    ELSE "Obsolete"

----------------------------------------------------------------------------
(* Keys and signatures (crypto.rs).                                        *)

Keys == {"k1", "k2"}

\* KeyPair::verifying_key
verifying_key(keypair) == [vk |-> keypair]

\* KeyPair::sign
sign(keypair, message) == [signer |-> keypair, msg |-> message]

\* VerifyingKey::verify_strict
verify_strict(public_key, message, signature) ==
    signature.signer = public_key.vk /\ signature.msg = message

----------------------------------------------------------------------------
(* Conversions to text used by the hashed frontmatter projection.          *)

Digit == <<"0", "1", "2", "3", "4", "5", "6", "7", "8", "9">>

\* A u32 is held as the 32-bit two's complement integer with the same bits
\* (the integers of TLC are 32 bits wide): 0 .. 2^31 - 1 are themselves and
\* u32::MAX = 2^32 - 1 is -1.
U32_MAX == -1

I32_MAX == 2147483647

\* u32 addition of 1, wrapping.
wrapping_inc(n) == IF n = I32_MAX THEN (-I32_MAX) - 1 ELSE n + 1

\* u32::to_string.  For n < 0 the value is 2^32 + n = 429496729 * 10 + 6 + n.
RECURSIVE to_string(_)
to_string(n) ==
    IF n < 0
    THEN to_string(429496729 + ((6 + n) \div 10)) \o Digit[((6 + n) % 10) + 1]
    ELSE IF n < 10 THEN Digit[n + 1]
    ELSE to_string(n \div 10) \o Digit[(n % 10) + 1]

\* bool::to_string
bool_to_string(b) == IF b THEN "true" ELSE "false"

\* DateTime<Utc>::to_rfc3339: one text per instant.
to_rfc3339(t) == "1970-01-01T00:00:0" \o to_string(t) \o "+00:00"

\* format!("{:?}", doc_status).to_lowercase()
status_lowercase(status) ==
    CASE status = "Notes" -> "notes"
      [] status = "Draft" -> "draft"
      [] status = "Published" -> "published"
      [] status = "Revoked" -> "revoked"

\* hex::encode of a 32-byte digest: one text per digest.
hex_encode(hash) == [hex |-> hash]

----------------------------------------------------------------------------
(* The document model (models.rs).                                         *)

DocStatus == {"Notes", "Draft", "Published", "Revoked"}

PolicyDefault ==
    [allow_include |-> TRUE, allow_quote |-> TRUE, require_attribution |-> FALSE]

\* FrontMatter::default, with the id and clock reading it draws.
FrontMatterDefault(id, t) ==
    [ id |-> id,
      version_hash |-> None,
      title |-> "Untitled",
      author |-> None,
      public_key |-> None,
      signature |-> None,
      created_at |-> t,
      modified_at |-> None,
      doc_status |-> "Notes",
      policy |-> PolicyDefault,
      protocol_version |-> DEFAULT_PROTOCOL_VERSION,
      doc_version |-> 0,
      prev_version_hash |-> None,
      extra |-> None ]

\* TracedDocument::new
new(title, content, id, t) ==
    [ frontmatter |-> [FrontMatterDefault(id, t) EXCEPT !.title = title],
      body |-> trim(content) ]

\* TracedDocument::author
author(d, a) == [d EXCEPT !.frontmatter.author = Some(a)]

\* TracedDocument::set_status
set_status(d, status) == [d EXCEPT !.frontmatter.doc_status = status]

\* TracedDocument::update_modified_time
update_modified_time(d, t) == [d EXCEPT !.frontmatter.modified_at = Some(t)]

\* TracedDocument::extra_info
extra_info(d, key, value) ==
    IF IsSome(d.frontmatter.extra)
    THEN [d EXCEPT !.frontmatter.extra =
              Some((key :> value) @@ d.frontmatter.extra.v)]
    ELSE [d EXCEPT !.frontmatter.extra = Some(key :> value)]

\* The BTreeMap fm_map of compute_version_hash.  insert() replaces the value
\* of a key already present, so the entries of extra, inserted last, win.
FmIf(cond, key, value) == IF cond THEN key :> value ELSE <<>>

\* A map in which the reserved keys win over those of extra.
fm_map_reserved_wins(fm) ==
    LET reserved ==
            ("id" :> fm.id)
         @@ ("title" :> fm.title)
         @@ FmIf(IsSome(fm.author), "author", fm.author.v)
         @@ FmIf(IsSome(fm.public_key), "public_key", fm.public_key.v)
         @@ ("policy_allow_include" :> bool_to_string(fm.policy.allow_include))
         @@ ("policy_allow_quote" :> bool_to_string(fm.policy.allow_quote))
         @@ ("policy_require_attribution" :>
                 bool_to_string(fm.policy.require_attribution))
         @@ ("created_at" :> to_rfc3339(fm.created_at))
         @@ FmIf(IsSome(fm.modified_at), "modified_at",
                 to_rfc3339(fm.modified_at.v))
         @@ ("doc_status" :> status_lowercase(fm.doc_status))
         @@ ("protocol_version" :> fm.protocol_version)
         @@ ("doc_version" :> to_string(fm.doc_version))
         @@ FmIf(IsSome(fm.prev_version_hash), "prev_version_hash",
                 hex_encode(fm.prev_version_hash.v))
    IN  IF IsSome(fm.extra) THEN reserved @@ fm.extra.v ELSE reserved

fm_map(fm) ==
    LET reserved ==
            ("id" :> fm.id)
         @@ ("title" :> fm.title)
         @@ FmIf(IsSome(fm.author), "author", fm.author.v)
         @@ FmIf(IsSome(fm.public_key), "public_key", fm.public_key.v)
         @@ ("policy_allow_include" :> bool_to_string(fm.policy.allow_include))
         @@ ("policy_allow_quote" :> bool_to_string(fm.policy.allow_quote))
         @@ ("policy_require_attribution" :>
                 bool_to_string(fm.policy.require_attribution))
         @@ ("created_at" :> to_rfc3339(fm.created_at))
         @@ FmIf(IsSome(fm.modified_at), "modified_at",
                 to_rfc3339(fm.modified_at.v))
         @@ ("doc_status" :> status_lowercase(fm.doc_status))
         @@ ("protocol_version" :> fm.protocol_version)
         @@ ("doc_version" :> to_string(fm.doc_version))
         @@ FmIf(IsSome(fm.prev_version_hash), "prev_version_hash",
                 hex_encode(fm.prev_version_hash.v))
    IN  IF IsSome(fm.extra) THEN fm.extra.v @@ reserved ELSE reserved

\* A digest that leaves the body out.
hash_frontmatter_only(d) == [ body |-> <<>>, fm |-> fm_map(d.frontmatter) ]

\* A digest that takes the stored hash and signature in.
hash_with_seal(d) ==
    [ body |-> canonicalize_text(d.body), fm |-> fm_map(d.frontmatter),
      seal |-> <<d.frontmatter.version_hash, d.frontmatter.signature>> ]

\* TracedDocument::compute_version_hash: SHA-256 over the canonical body
\* followed by the JSON text of fm_map.  The canonical body is empty or ends
\* with LF and the JSON text holds no raw LF, so the pair is recoverable from
\* the hashed bytes.
compute_version_hash(d) ==
    [ body |-> canonicalize_text(d.body), fm |-> fm_map(d.frontmatter) ]

\* The status step of TracedDocument::seal.
seal_status(d) ==
    IF d.frontmatter.doc_status # "Revoked"
    THEN [d EXCEPT !.frontmatter.doc_status = "Published"]
    ELSE d

\* A seal that never links to the hash it replaces.
seal_chain_skipped(d) == d

\* The chain step of seal: the hash being replaced becomes the previous one.
seal_chain(d) ==
    IF IsSome(d.frontmatter.version_hash)
    THEN [d EXCEPT !.frontmatter.prev_version_hash =
              Some(d.frontmatter.version_hash.v)]
    ELSE d

\* A seal that never counts.
seal_count_skipped(d) == d

\* The doc_version += 1 of seal.  doc_version is a u32: the value here is
\* the wrapped sum (a build with overflow checks panics instead, see
\* SealOverflows).
seal_count(d) ==
    [d EXCEPT !.frontmatter.doc_version = wrapping_inc(d.frontmatter.doc_version)]

\* The last step of seal: the hash and the signature over it are stored.
seal_sign(d, keypair, hash) ==
    [d EXCEPT !.frontmatter.version_hash = Some(hash),
              !.frontmatter.signature = Some(sign(keypair, hash))]

\* The hash of seal is taken of the document as it stands at that point.
seal_hash(d, keypair) == seal_sign(d, keypair, compute_version_hash(d))

\* A seal that hashes before it counts the version.
seal_hash_before_count(d, keypair, t) ==
    seal_count(seal_hash(seal_chain(update_modified_time(seal_status(d), t)),
                         keypair))

\* A seal that stamps modified_at after it has hashed.
seal_time_after_hash(d, keypair, t) ==
    update_modified_time(seal_hash(seal_count(seal_chain(seal_status(d))),
                                   keypair), t)

\* TracedDocument::seal, t the reading of Utc::now().
seal(d, keypair, t) ==
    seal_hash(seal_count(seal_chain(update_modified_time(seal_status(d), t))),
              keypair)

\* The doc_version += 1 of seal overflows.
SealOverflows(d) == d.frontmatter.doc_version = U32_MAX

\* TracedDocument::verify
verify_hash(d, public_key, computed_hash) ==
    IF computed_hash # d.frontmatter.version_hash.v
    THEN Err("Verification", "Integrity check failed: version_hash mismatch")
    ELSE IF ~verify_strict(public_key, computed_hash, d.frontmatter.signature.v)
    THEN Err("Crypto", "Authenticity check failed")
    ELSE Ok("unit")

\* A verify that checks the signature before it compares the hashes.
verify_signature_first(d, public_key) ==
    IF ~is_version_known(d.frontmatter.protocol_version)
    THEN Err("Verification", "Unknown protocol version")
    ELSE IF ~IsSome(d.frontmatter.version_hash) \/ ~IsSome(d.frontmatter.signature)
    THEN Err("Verification", "Document is not sealed or not signed")
    ELSE IF ~verify_strict(public_key, compute_version_hash(d), d.frontmatter.signature.v)
    THEN Err("Crypto", "Authenticity check failed")
    ELSE IF compute_version_hash(d) # d.frontmatter.version_hash.v
    THEN Err("Verification", "Integrity check failed: version_hash mismatch")
    ELSE Ok("unit")

verify(d, public_key) ==
    IF ~is_version_known(d.frontmatter.protocol_version)
    THEN Err("Verification", "Unknown protocol version")
    ELSE IF get_version_status(d.frontmatter.protocol_version) = "Obsolete"
    THEN Err("Verification", "Protocol version is obsolete")
    ELSE IF ~IsSome(d.frontmatter.version_hash)
    THEN Err("Verification", "Document is not sealed (missing version_hash)")
    ELSE IF ~IsSome(d.frontmatter.signature)
    THEN Err("Verification", "Document is not signed (missing signature)")
    ELSE verify_hash(d, public_key, compute_version_hash(d))

----------------------------------------------------------------------------
(* Trace blocks and their YAML text (models.rs, serde_norway).  A line of  *)
(* a YAML mapping is one word "key: value".                                *)

TraceKeys ==
    << "source", "hash", "selector", "expected", "method", "extractor",
       "timestamp", "context", "confidence", "agent_metadata" >>

\* Option<String> fields of TraceBlock; source and expected are String.
TraceOptionKeys ==
    { "hash", "selector", "extractor", "timestamp", "context", "confidence",
      "agent_metadata" }

TraceMethods == {"automatic", "manual", "agent"}

\* The contents evidence files can have, and their SHA-256 in hex.
Contents == {"Verified", "Changed", "TopSecret"}

sha256_hex(content) == "#" \o content

\* format!("sha256:{}", hex::encode(result))
hash_string(content) == "sha256:" \o sha256_hex(content)

\* The longest chain of documents that include one another.
MaxChain == 7

\* The path of the i-th document of a chain.
ChainPath(i) == "c" \o to_string(i) \o ".tmd"

ChainPaths == { ChainPath(i) : i \in 1..MaxChain }

\* The scalar values that occur in the YAML of the modelled documents.
YamlValues ==
    { "null", "ev.md", "gone.md", "../secret", "/etc/passwd", "Verified",
      "automatic", "manual", "regex", "Regex", "jsonpath", "xpath", "Ver.+",
      "(", "Changed",
      "a.tmd", "b.tmd", "leaf.tmd", "closed.tmd", "nowhere.tmd" }
    \cup { hash_string(c) : c \in Contents }
    \cup { "SHA256:" \o sha256_hex("Verified") }
    \cup ChainPaths

YamlKeys == { TraceKeys[i] : i \in 1..Len(TraceKeys) } \cup {"path", "integrity"}

YamlWord(key, value) == key \o ": " \o value

\* The words that are a line "key: value" of a YAML mapping, each with the
\* entry <<key, value>> it stands for.
YamlTable ==
    [ w \in { YamlWord(e[1], e[2]) : e \in YamlKeys \X YamlValues } |->
        CHOOSE e \in YamlKeys \X YamlValues : YamlWord(e[1], e[2]) = w ]

\* The entry a word stands for as a line of a YAML mapping, if it is one.
yaml_entry(w) ==
    IF w \in DOMAIN YamlTable THEN Ok(YamlTable[w])
    ELSE Err("Format", "invalid YAML")

\* The mapping a YAML text denotes: Ok(key -> value), or an error when a line
\* is no "key: value" word or a key occurs twice.  Blank lines are skipped.
RECURSIVE yaml_mapping(_, _)

\* The entry e of one line joins the mapping acc.
yaml_insert(e, rest, acc) ==
    IF ~e.ok THEN Err("Format", "invalid YAML")
    ELSE IF e.v[1] \in DOMAIN acc THEN Err("Format", "duplicate key")
    ELSE yaml_mapping(rest, (e.v[1] :> e.v[2]) @@ acc)

\* One line l, trailing white space removed, of the mapping.
yaml_line(l, rest, acc) ==
    IF l = <<>> THEN yaml_mapping(rest, acc)
    ELSE IF Len(l) # 1 THEN Err("Format", "invalid YAML")
    ELSE yaml_insert(yaml_entry(l[1]), rest, acc)

yaml_mapping(ls, acc) ==
    IF ls = <<>> THEN Ok(acc) ELSE yaml_line(trim_end(ls[1]), Tail(ls), acc)

YamlOption(m, key) ==
    IF key \in DOMAIN m /\ m[key] # "null" THEN Some(m[key]) ELSE None

\* The TraceBlock a YAML mapping r deserializes to: source and expected are
\* required, method defaults to automatic, unknown keys are ignored.
trace_from_mapping(r) ==
    IF ~r.ok THEN r
    ELSE IF \/ "source" \notin DOMAIN r.v \/ "expected" \notin DOMAIN r.v
            \/ r.v["source"] = "null" \/ r.v["expected"] = "null"
    THEN Err("Format", "missing field")
    ELSE IF "method" \in DOMAIN r.v /\ r.v["method"] \notin TraceMethods
    THEN Err("Format", "unknown variant")
    ELSE Ok([ k \in { TraceKeys[i] : i \in 1..Len(TraceKeys) } |->
                IF k \in TraceOptionKeys THEN YamlOption(r.v, k)
                ELSE IF k = "method"
                     THEN (IF k \in DOMAIN r.v THEN r.v[k] ELSE "automatic")
                ELSE r.v[k] ])

\* serde_norway::from_str::<TraceBlock>
trace_from_yaml(ls) == trace_from_mapping(yaml_mapping(ls, <<>>))

\* serde_norway::to_string(&TraceBlock): every field in declaration order,
\* one line each, None written as null.
RECURSIVE trace_to_yaml(_, _)
trace_to_yaml(t, i) ==
    IF i > Len(TraceKeys) THEN <<>>
    ELSE LET k == TraceKeys[i]
             v == IF k \in TraceOptionKeys
                  THEN (IF IsSome(t[k]) THEN t[k].v ELSE "null")
                  ELSE t[k]
         IN  <<YamlWord(k, v), "LF">> \o trace_to_yaml(t, i + 1)

----------------------------------------------------------------------------
(* The block parser (markdown.rs).                                         *)

\* The fence prefixes a word starts with.  "~~~" stands for the fence of
\* three backquotes, which cannot be written inside a TLA+ string.
FencePrefixes(w) ==
    CASE w = "~~~" -> {"~~~"}
      [] w = "~~~trace" -> {"~~~", "~~~trace"}
      [] w = "~~~include" -> {"~~~", "~~~include"}
      [] w = "~~~text" -> {"~~~"}
      [] OTHER -> {}

\* str::starts_with for a fence prefix.
starts_with(s, prefix) ==
    s # <<>> /\ ~IsChar(s[1]) /\ prefix \in FencePrefixes(s[1])

\* str::trim_start_matches / trim_end_matches for one fence word.
trim_start_matches(s, w) ==
    IF s # <<>> /\ s[1] = w THEN Tail(s) ELSE s

trim_end_matches(s, w) ==
    IF s # <<>> /\ s[Len(s)] = w THEN SubSeq(s, 1, Len(s) - 1) ELSE s

Paragraph(text) == [kind |-> "Paragraph", text |-> text]

Trace(t) == [kind |-> "Trace", trace |-> t]

Include(text) == [kind |-> "Include", text |-> text]

\* The map_err of parse_trace_block on the result r of the YAML parser.
trace_metadata(r) ==
    IF r.ok THEN r ELSE Err("Format", "Failed to parse trace metadata")

\* parse_trace_block on the lines ls of the block.
parse_trace_lines(ls) ==
    IF Len(ls) < 2 THEN Err("Format", "Invalid trace block: too short")
    ELSE IF ~starts_with(trim(ls[1]), "~~~trace")
    THEN Err("Format", "Invalid trace block: missing opening fence")
    ELSE IF ~starts_with(trim(ls[Len(ls)]), "~~~")
    THEN Err("Format", "Invalid trace block: missing closing fence")
    ELSE trace_metadata(trace_from_yaml(SubSeq(ls, 2, Len(ls) - 1)))

parse_trace_block(block) == parse_trace_lines(lines(block))

\* A fallback that keeps only what stands between the fences.
trace_section_inner(r, block) ==
    IF r.ok THEN Trace(r.v)
    ELSE Paragraph(LET ls == lines(block) IN join(SubSeq(ls, 2, Len(ls) - 1)))

\* The section a trace block closes as: the parsed trace, or on a parse
\* error the block as a paragraph.
trace_section(r, block) == IF r.ok THEN Trace(r.v) ELSE Paragraph(block)

\* The section the closing fence of a block of block_type pushes.
close_block(block_type, block) ==
    CASE block_type = "trace" -> trace_section(parse_trace_block(block), block)
      [] block_type = "include" -> Include(block)
      [] OTHER -> Paragraph(block)

\* A flush that pushes the pending text even when it is blank.
flush_paragraph_always(st) == Append(st.sections, Paragraph(st.current))

\* The sections once the pending paragraph, if any, is pushed.
flush_paragraph(st) ==
    IF trim(st.current) # <<>>
    THEN Append(st.sections, Paragraph(st.current))
    ELSE st.sections

\* An opening fence of block_type on line.
open_block(st, block_type, line) ==
    [ sections |-> flush_paragraph(st), in_block |-> TRUE,
      block_type |-> block_type, current |-> line \o <<"LF">> ]

\* One iteration of the loop of parse_tmd_sections over body.lines(): s is
\* line.trim_start(), pushed is current once line and a newline are pushed.
parse_line(st, line, s, pushed) ==
    IF st.in_block
    THEN IF starts_with(s, "~~~")
         THEN [ sections |-> Append(st.sections,
                                    close_block(st.block_type, pushed)),
                in_block |-> FALSE, block_type |-> "", current |-> <<>> ]
         ELSE [st EXCEPT !.current = pushed]
    ELSE IF starts_with(s, "~~~trace") THEN open_block(st, "trace", line)
    ELSE IF starts_with(s, "~~~include") THEN open_block(st, "include", line)
    ELSE [st EXCEPT !.current = pushed]

ParseLine(st, line) ==
    parse_line(st, line, trim_start(line), st.current \o line \o <<"LF">>)

RECURSIVE ParseLines(_, _)
ParseLines(st, ls) ==
    IF ls = <<>> THEN st ELSE ParseLines(ParseLine(st, ls[1]), Tail(ls))

parse_tmd_sections(body) ==
    flush_paragraph(ParseLines([ sections |-> <<>>, in_block |-> FALSE,
                                 block_type |-> "", current |-> <<>> ],
                               lines(body)))

----------------------------------------------------------------------------
(* The file system and the safe resolver (resolver.rs).                    *)

\* The longest path, in components, among the paths made of PathNames.
MaxComponents == 3

\* The components those paths are made of: the parent directory, the
\* current directory and two names.
PathNames == {"..", ".", "a", "b"}

\* The names of the files that trace and include blocks refer to.
FileNames ==
    { "ev.md", "gone.md", "a.tmd", "b.tmd", "leaf.tmd", "closed.tmd",
      "nowhere.tmd" } \cup ChainPaths

\* The paths in use: whether absolute, and the components in order.
PathShapes ==
    { [absolute |-> ab, components |-> c] :
        ab \in BOOLEAN,
        c \in UNION { [1..k -> PathNames] : k \in 1..MaxComponents } }
    \cup { [absolute |-> FALSE, components |-> <<f>>] : f \in FileNames }
    \cup { [absolute |-> TRUE, components |-> <<"etc", "passwd">>],
           [absolute |-> FALSE, components |-> <<"..", "secret">>],
           [absolute |-> FALSE, components |-> <<"a", "..", "..", "b">>] }

\* The components of a path written with "/" between them.
RECURSIVE JoinComponents(_)
JoinComponents(c) ==
    IF Len(c) = 1 THEN c[1] ELSE c[1] \o "/" \o JoinComponents(Tail(c))

\* The text of a path: an absolute path starts with "/".
PathText(shape) ==
    (IF shape.absolute THEN "/" ELSE "") \o JoinComponents(shape.components)

\* The path each text in use denotes.
PathTable ==
    [ source \in { PathText(shape) : shape \in PathShapes } |->
        CHOOSE shape \in PathShapes : PathText(shape) = source ]

\* std::path::Path::new(source): whether it is absolute, and its components.
\* Path::components() drops a "." that is not the first component and
\* yields CurDir for one that is; the loop of validate_path skips CurDir, so
\* every "." is kept here and skipped there.
PathOf(source) == PathTable[source]

\* A file below the base directory, a link that leads out of it, and a
\* directory.
File(bytes) == [bytes |-> bytes, inside |-> TRUE, doc |-> None, dir |-> FALSE]

Outside(bytes) == [bytes |-> bytes, inside |-> FALSE, doc |-> None, dir |-> FALSE]

Dir == [bytes |-> "", inside |-> TRUE, doc |-> None, dir |-> TRUE]

\* A directory outside the base directory: one above it, or one that a link
\* below it leads to.
OutDir == [bytes |-> "", inside |-> FALSE, doc |-> None, dir |-> TRUE]

\* A .tmd file: its bytes and the document parse_tmd reads from them.
DocFile(name, d) ==
    [bytes |-> "tmd:" \o name, inside |-> TRUE, doc |-> Some(d), dir |-> FALSE]

IncludeText(path) ==
    <<"~~~include", "LF", YamlWord("path", path), "LF", "~~~">>

DiskDoc(id, status, allow_include, body) ==
    [ frontmatter |->
          [FrontMatterDefault(id, 0) EXCEPT
               !.doc_status = status,
               !.policy = [PolicyDefault EXCEPT !.allow_include = allow_include]],
      body |-> body ]

\* The files below the base directory (and the two outside it that a source
\* can name), by the source text that reaches them from the base directory.
HostFiles ==
       ("ev.md" :> File("Verified"))
    @@ ("../secret" :> Outside("TopSecret"))
    @@ ("/etc/passwd" :> Outside("TopSecret"))
    @@ ("a.tmd" :> DocFile("a", DiskDoc("id-a", "Notes", TRUE, IncludeText("b.tmd"))))
    @@ ("b.tmd" :> DocFile("b", DiskDoc("id-b", "Notes", TRUE, IncludeText("a.tmd"))))
    @@ ("leaf.tmd" :> DocFile("leaf", DiskDoc("id-l", "Draft", TRUE, <<"Leaf.">>)))
    @@ ("closed.tmd" :> DocFile("closed", DiskDoc("id-c", "Draft", FALSE, <<"Closed.">>)))

\* The source texts that occur in trace and include blocks, and the other
\* paths a resolver is asked for.
Sources == DOMAIN PathTable

\* A loop over path.components() that looks at the depth at the end only.
RECURSIVE escapes_root_at_end(_, _)
escapes_root_at_end(components, depth) ==
    IF components = <<>> THEN depth < 0
    ELSE IF components[1] = ".."
         THEN escapes_root_at_end(Tail(components), depth - 1)
    ELSE IF components[1] = "."
         THEN escapes_root_at_end(Tail(components), depth)
    ELSE escapes_root_at_end(Tail(components), depth + 1)

\* The loop of FileResolver::validate_path over path.components(): TRUE when
\* the running depth drops below zero.
RECURSIVE escapes_root(_, _)
escapes_root(components, depth) ==
    IF components = <<>> THEN FALSE
    ELSE IF components[1] = ".."
         THEN depth - 1 < 0 \/ escapes_root(Tail(components), depth - 1)
    ELSE IF components[1] = "."
         THEN escapes_root(Tail(components), depth)
    ELSE escapes_root(Tail(components), depth + 1)

\* Steps 1 and 2 of FileResolver::validate_path, which look at the text of
\* the source alone.
check_components(source) ==
    IF PathOf(source).absolute THEN SecurityErr("PathTraversal", source)
    ELSE IF escapes_root(PathOf(source).components, 0)
    THEN SecurityErr("PathTraversal", source)
    ELSE Ok(source)

\* The directories above the base directory exist in every file system.
IsAbove(stack) == \A i \in 1..Len(stack) : stack[i] = ".."

\* The entry of the file system at the path with the components stack,
\* counted from the base directory, which is the empty stack.
FsEntry(fs, stack) ==
    IF stack = <<>> THEN Dir
    ELSE IF IsAbove(stack) THEN OutDir
    ELSE fs[JoinComponents(stack)]

FsHas(fs, stack) == IsAbove(stack) \/ JoinComponents(stack) \in DOMAIN fs

\* The walk of the file system along the components of root.join(path):
\* Ok of the components of the place it reaches, or the error of the
\* system call.  Every component but the last has to be a directory.
RECURSIVE walk_path(_, _, _)
walk_path(fs, components, stack) ==
    IF components = <<>>
    THEN IF FsHas(fs, stack) THEN Ok(stack)
         ELSE Err("Io", "No such file or directory")
    ELSE IF ~FsHas(fs, stack) THEN Err("Io", "No such file or directory")
    ELSE IF ~FsEntry(fs, stack).dir THEN Err("Io", "Not a directory")
    ELSE IF components[1] = "." THEN walk_path(fs, Tail(components), stack)
    ELSE IF components[1] = ".."
    THEN walk_path(fs, Tail(components),
                   IF stack # <<>> /\ FsEntry(fs, stack).inside
                   THEN SubSeq(stack, 1, Len(stack) - 1)
                   ELSE Append(stack, ".."))
    ELSE walk_path(fs, Tail(components), Append(stack, components[1]))

\* root.join(source) exists: an absolute source replaces the root in the
\* join, any other is walked from the base directory.
JoinExists(fs, source) ==
    IF PathOf(source).absolute THEN source \in DOMAIN fs
    ELSE walk_path(fs, PathOf(source).components, <<>>).ok

\* The entry root.join(source) leads to, when it exists.
JoinEntry(fs, source) ==
    IF PathOf(source).absolute THEN fs[source]
    ELSE FsEntry(fs, walk_path(fs, PathOf(source).components, <<>>).v)

\* A validate_path without its step 3.
check_canonical_skipped(fs, source, found) == Ok(source)


\* Step 3 of FileResolver::validate_path on the result found of the walk:
\* full_path.exists(), canonicalize() and the starts_with check.
check_canonical(fs, source, found) ==
    IF ~found.ok THEN Ok(source)
    ELSE IF ~FsEntry(fs, found.v).inside
    THEN SecurityErr("PathTraversal", source)
    ELSE Ok(source)

\* FileResolver::validate_path over the files fs: Ok(source) names the path
\* to read.
validate_path(fs, source) ==
    IF ~check_components(source).ok THEN check_components(source)
    ELSE check_canonical(fs, source,
                         walk_path(fs, PathOf(source).components, <<>>))

\* The system calls of validate_path, in order.
validate_path_calls(fs, source) ==
    IF ~check_components(source).ok THEN <<>>
    ELSE IF walk_path(fs, PathOf(source).components, <<>>).ok
    THEN <<"exists", "canonicalize">>
    ELSE <<"exists">>

\* fs::read of the path found by the walk.
fs_read(fs, found) ==
    IF ~found.ok THEN found
    ELSE IF FsEntry(fs, found.v).dir THEN Err("Io", "Is a directory")
    ELSE Ok(FsEntry(fs, found.v).bytes)

\* FileResolver::resolve_bytes
file_resolve_bytes(fs, source) ==
    IF ~validate_path(fs, source).ok THEN validate_path(fs, source)
    ELSE fs_read(fs, walk_path(fs, PathOf(source).components, <<>>))

\* The system calls of resolve_bytes, in order.
file_resolve_bytes_calls(fs, source) ==
    validate_path_calls(fs, source)
    \o (IF validate_path(fs, source).ok THEN <<"read">> ELSE <<>>)

\* FileResolver::resolve_document
file_resolve_document(fs, source) ==
    LET bytes == file_resolve_bytes(fs, source)
    IN  IF ~bytes.ok THEN bytes
        ELSE IF IsSome(FsEntry(fs, walk_path(fs, PathOf(source).components,
                                             <<>>).v).doc)
        THEN Ok(FsEntry(fs, walk_path(fs, PathOf(source).components,
                                      <<>>).v).doc.v)
        ELSE Err("Format", "Invalid TMD format: Missing frontmatter delimiters")

\* A SourceResolver as a value: its two methods tabulated over Sources.
FileResolver(fs) ==
    [ resolve_bytes |-> [s \in Sources |-> file_resolve_bytes(fs, s)],
      resolve_document |-> [s \in Sources |-> file_resolve_document(fs, s)] ]

----------------------------------------------------------------------------
(* Extractors (extraction.rs).                                             *)

\* str::to_lowercase on the extractor names in use.
to_lowercase(method) == IF method = "Regex" THEN "regex" ELSE method

get_extractor(method) ==
    IF to_lowercase(method) \in {"regex", "jsonpath"}
    THEN Ok(to_lowercase(method))
    ELSE Err("Extraction", "Unknown extraction method: " \o method)

\* RegexExtractor::extract and JsonPathExtractor::extract on the selectors
\* and contents in use: "(" is no regex, "Ver.+" matches a text that starts
\* with Ver and yields the whole match, a word matches itself; no content
\* is JSON.
extract(extractor, content, selector) ==
    IF extractor = "regex"
    THEN IF selector = "(" THEN Err("Extraction", "Invalid regex")
         ELSE IF selector = "Ver.+" /\ content = "Verified" THEN Ok(content)
         ELSE IF selector = content THEN Ok(content)
         ELSE Err("Extraction", "Regex found no matches")
    ELSE Err("Extraction", "Invalid JSON for extraction")

----------------------------------------------------------------------------
(* The verification compiler (compiler.rs).                                *)

MAX_INCLUDE_DEPTH == 5

EmptyReport == [errors |-> <<>>, warnings |-> <<>>]

PushError(report, r) == [report EXCEPT !.errors = Append(@, ErrorOf(r))]

PushWarning(report, w) == [report EXCEPT !.warnings = Append(@, w)]

\* format!("Trace warning: {}", e)
TraceWarning(r) == [warning |-> "Trace warning: ", error |-> ErrorOf(r)]

NoKeyWarning ==
    [warning |-> "No public key found in metadata, skipping signature verification"]

\* hex::encode(verifying_key.as_bytes())
public_key_hex(keypair) == "pub:" \o keypair

\* hex::decode on the key texts in use: "zz" is no hex, "abcd" is two bytes,
\* "badpoint" is 32 bytes that are no curve point.
hex_decode(text) ==
    IF text = "zz" THEN Err("Hex", "Invalid character")
    ELSE Ok([text |-> text, len |-> IF text = "abcd" THEN 2 ELSE 32])

\* VerifyingKey::from_bytes
from_bytes(bytes) ==
    IF \E k \in Keys : bytes.text = public_key_hex(k)
    THEN Ok(verifying_key(CHOOSE k \in Keys : bytes.text = public_key_hex(k)))
    ELSE Err("Signature", "Cannot decompress Edwards point")

\* The comparison of the extracted value with trace.expected.  The code
\* compares the two values trimmed; the values here are single words that
\* carry no white space, which trim returns as they are.
check_extracted(extracted_value, trace) ==
    IF ~extracted_value.ok THEN extracted_value
    ELSE IF extracted_value.v # trace.expected
    THEN Err("Verification", "Truth verification failed for " \o trace.source)
    ELSE Ok("unit")

\* The selector branch of verify_trace.
check_selector(extractor, content, trace) ==
    IF ~extractor.ok THEN extractor
    ELSE check_extracted(extract(extractor.v, content, trace.selector.v), trace)

\* The hash comparison of verify_trace alone.
check_hash(content, trace) ==
    IF IsSome(trace.hash) /\ hash_string(content.v) # trace.hash.v
    THEN Err("Verification", "Hash mismatch for " \o trace.source)
    ELSE Ok("unit")

\* A verify_trace that extracts before it compares the hash.
check_content_selector_first(content, trace) ==
    IF ~content.ok THEN content
    ELSE IF IsSome(trace.selector)
            /\ ~check_selector(get_extractor(IF IsSome(trace.extractor)
                                             THEN trace.extractor.v
                                             ELSE "regex"),
                               content.v, trace).ok
    THEN check_selector(get_extractor(IF IsSome(trace.extractor)
                                      THEN trace.extractor.v ELSE "regex"),
                        content.v, trace)
    ELSE check_hash(content, trace)

\* A verify_trace that looks the extractor up before it knows of a selector.
check_content_eager_extractor(content, trace) ==
    IF ~content.ok THEN content
    ELSE IF ~get_extractor(IF IsSome(trace.extractor)
                           THEN trace.extractor.v ELSE "regex").ok
    THEN get_extractor(IF IsSome(trace.extractor)
                       THEN trace.extractor.v ELSE "regex")
    ELSE IF ~check_hash(content, trace).ok THEN check_hash(content, trace)
    ELSE IF IsSome(trace.selector)
    THEN check_selector(get_extractor(IF IsSome(trace.extractor)
                                      THEN trace.extractor.v ELSE "regex"),
                        content.v, trace)
    ELSE Ok("unit")

\* verify_trace on the result content of resolve_bytes.
check_content(content, trace) ==
    IF ~content.ok THEN content
    ELSE IF IsSome(trace.hash) /\ hash_string(content.v) # trace.hash.v
    THEN Err("Verification", "Hash mismatch for " \o trace.source)
    ELSE IF IsSome(trace.selector)
    THEN check_selector(get_extractor(IF IsSome(trace.extractor)
                                      THEN trace.extractor.v ELSE "regex"),
                        content.v, trace)
    ELSE Ok("unit")

\* Compiler::verify_trace
verify_trace(resolver, trace) ==
    check_content(resolver.resolve_bytes[trace.source], trace)

\* Step 1 of verify_recursive, the integrity/signature check: Ok(report), or
\* the Err that the ? on the key length returns from verify_recursive.
check_signature(r) ==
    IF r.ok THEN Ok(EmptyReport) ELSE Ok(PushError(EmptyReport, r))

check_key(d, pk) ==
    IF pk.ok THEN check_signature(verify(d, pk.v))
    ELSE Ok(PushError(EmptyReport, Err("Crypto", "Invalid public key format")))

check_key_bytes(d, pk_bytes) ==
    IF ~pk_bytes.ok
    THEN Ok(PushError(EmptyReport, Err("Crypto", "Public key is not valid hex")))
    ELSE IF pk_bytes.v.len # 32 THEN Err("Crypto", "Invalid key len")
    ELSE check_key(d, from_bytes(pk_bytes.v))

signature_check(d) ==
    IF d.frontmatter.doc_status \in {"Published", "Revoked"}
    THEN IF IsSome(d.frontmatter.public_key)
         THEN check_key_bytes(d, hex_decode(d.frontmatter.public_key.v))
         ELSE Ok(PushWarning(EmptyReport, NoKeyWarning))
    ELSE Ok(EmptyReport)

\* The IncludeBlock a YAML mapping r deserializes to.
include_from_mapping(r) ==
    IF ~r.ok THEN r
    ELSE IF "path" \notin DOMAIN r.v \/ r.v["path"] = "null"
    THEN Err("Format", "missing field path")
    ELSE Ok([path |-> r.v["path"], integrity |-> YamlOption(r.v, "integrity")])

\* serde_norway::from_str::<IncludeBlock> of the text between the fences of
\* an include section.
include_from_section(content) ==
    include_from_mapping(yaml_mapping(lines(
        trim(trim_end_matches(trim_start_matches(trim(content), "~~~include"),
                              "~~~"))), <<>>))

RECURSIVE verify_recursive(_, _, _, _)
RECURSIVE walk_sections(_, _, _, _, _, _)

\* A trace step that reports every failure as an error.
trace_outcome_always_error(d, report, r) ==
    IF r.ok THEN report ELSE PushError(report, r)

\* The report after a trace section whose verify_trace returned r.
trace_outcome(d, report, r) ==
    IF r.ok THEN report
    ELSE IF d.frontmatter.doc_status = "Published" THEN PushError(report, r)
    ELSE PushWarning(report, TraceWarning(r))

\* The report after the policy check of an included document.
policy_check(report, included_doc, path) ==
    IF ~included_doc.frontmatter.policy.allow_include
    THEN PushError(report,
             Err("Verification", "Document " \o path \o " does not allow inclusion"))
    ELSE report

\* An extend that puts the entries of the included document before those
\* collected so far.
extend_report_prepends(resolver, d, rest, depth, seen, report, sub_report) ==
    IF ~sub_report.ok THEN sub_report
    ELSE walk_sections(resolver, d, rest, depth, seen,
             [ errors |-> sub_report.v.errors \o report.errors,
               warnings |-> sub_report.v.warnings \o report.warnings ])

\* The ? on the recursive call, then the two extend() calls.
extend_report(resolver, d, rest, depth, seen, report, sub_report) ==
    IF ~sub_report.ok THEN sub_report
    ELSE walk_sections(resolver, d, rest, depth, seen,
             [ errors |-> report.errors \o sub_report.v.errors,
               warnings |-> report.warnings \o sub_report.v.warnings ])

\* An include step that leaves the path in seen for the blocks after it.
walk_included_keeps_seen(resolver, d, rest, depth, seen, report, path, included_doc) ==
    IF included_doc.ok
    THEN extend_report(resolver, d, rest, depth, seen \cup {path},
             policy_check(report, included_doc.v, path),
             verify_recursive(resolver, included_doc.v, depth + 1,
                              seen \cup {path}))
    ELSE walk_sections(resolver, d, rest, depth, seen \cup {path},
             PushError(report,
                 Err("Resolution", "Failed to resolve include " \o path)))

\* The match on resolve_document(&include.path).
walk_included(resolver, d, rest, depth, seen, report, path, included_doc) ==
    IF included_doc.ok
    THEN extend_report(resolver, d, rest, depth, seen,
             policy_check(report, included_doc.v, path),
             verify_recursive(resolver, included_doc.v, depth + 1,
                              seen \cup {path}))
    ELSE walk_sections(resolver, d, rest, depth, seen,
             PushError(report,
                 Err("Resolution", "Failed to resolve include " \o path)))

\* An include step that never looks at seen.
walk_include_unguarded(resolver, d, rest, depth, seen, report, include) ==
    IF ~include.ok
    THEN walk_sections(resolver, d, rest, depth, seen,
             PushError(report,
                 Err("Format", "Invalid include block: " \o include.msg)))
    ELSE walk_included(resolver, d, rest, depth, seen, report, include.v.path,
                       resolver.resolve_document[include.v.path])

\* The match on the parsed include block.
walk_include(resolver, d, rest, depth, seen, report, include) ==
    IF ~include.ok
    THEN walk_sections(resolver, d, rest, depth, seen,
             PushError(report,
                 Err("Format", "Invalid include block: " \o include.msg)))
    ELSE IF include.v.path \in seen
    THEN SecurityErr("CircularInclude", include.v.path)
    ELSE walk_included(resolver, d, rest, depth, seen, report, include.v.path,
                       resolver.resolve_document[include.v.path])

\* The match on one section.
walk_section(resolver, d, section, rest, depth, seen, report) ==
    IF section.kind = "Trace"
    THEN walk_sections(resolver, d, rest, depth, seen,
             trace_outcome(d, report, verify_trace(resolver, section.trace)))
    ELSE IF section.kind = "Include"
    THEN walk_include(resolver, d, rest, depth, seen, report,
                      include_from_section(section.text))
    ELSE walk_sections(resolver, d, rest, depth, seen, report)

\* Step 2 of verify_recursive: the loop over the sections from the first of
\* sections on.  seen is restored after every include block, so the loop
\* carries it unchanged.
walk_sections(resolver, d, sections, depth, seen, report) ==
    IF sections = <<>> THEN Ok(report)
    ELSE walk_section(resolver, d, sections[1], Tail(sections), depth, seen,
                      report)

\* Steps 1 and 2 in sequence.
verify_steps(resolver, d, depth, seen, report) ==
    IF ~report.ok THEN report
    ELSE walk_sections(resolver, d, parse_tmd_sections(d.body), depth, seen,
                       report.v)

\* A depth guard that already refuses depth MAX_INCLUDE_DEPTH.
verify_recursive_one_short(resolver, d, depth, seen) ==
    IF depth >= MAX_INCLUDE_DEPTH
    THEN SecurityErr("MaxRecursionDepth", to_string(MAX_INCLUDE_DEPTH))
    ELSE verify_steps(resolver, d, depth, seen, signature_check(d))

\* Compiler::verify_recursive
verify_recursive(resolver, d, depth, seen) ==
    IF depth > MAX_INCLUDE_DEPTH
    THEN SecurityErr("MaxRecursionDepth", to_string(MAX_INCLUDE_DEPTH))
    ELSE verify_steps(resolver, d, depth, seen, signature_check(d))

\* Compiler::verify
compiler_verify(resolver, d) == verify_recursive(resolver, d, 0, {})

\* The same traversal with seen as the one mutable set it is: what is
\* returned tells whether the result is Ok, what seen holds at the return,
\* and the events on the way: every entry of verify_recursive, every call
\* of parse_tmd_sections and every call of resolve_document, each with its
\* depth, the seen of that moment and the include paths of the calls it
\* stands in (for a resolve the path asked for is the last of them).
RECURSIVE verify_recursive_log(_, _, _, _, _)
RECURSIVE walk_sections_log(_, _, _, _, _, _)

LogStop(seen, entries) == [ok |-> FALSE, seen |-> seen, entries |-> entries]

LogEvent(kind, depth, seen, stack) ==
    [kind |-> kind, depth |-> depth, seen |-> seen, stack |-> stack]

\* A guard that lets one more level in.
depth_exceeded_late(depth) == depth > MAX_INCLUDE_DEPTH + 1

\* if depth > MAX_INCLUDE_DEPTH
depth_exceeded(depth) == depth > MAX_INCLUDE_DEPTH

\* A remove that leaves the path in seen.
seen_remove_skipped(seen, path) == seen

\* seen.remove(&include.path)
seen_remove(seen, path) == seen \ {path}

\* The match on resolve_document and the remove after it; seen holds the
\* path already.
walk_included_log(resolver, rest, depth, seen, stack, entries, path, included_doc) ==
    IF ~included_doc.ok
    THEN walk_sections_log(resolver, rest, depth, seen_remove(seen, path),
                           stack, entries)
    ELSE LET sub == verify_recursive_log(resolver, included_doc.v, depth + 1,
                                         seen, Append(stack, path))
         IN  IF ~sub.ok THEN LogStop(sub.seen, entries \cup sub.entries)
             ELSE walk_sections_log(resolver, rest, depth,
                                    seen_remove(sub.seen, path), stack,
                                    entries \cup sub.entries)

\* The match on one section: only an include block that parses touches seen.
walk_section_log(resolver, rest, depth, seen, stack, entries, include) ==
    IF ~include.ok
    THEN walk_sections_log(resolver, rest, depth, seen, stack, entries)
    ELSE IF include.v.path \in seen THEN LogStop(seen, entries)
    ELSE walk_included_log(resolver, rest, depth,
                           seen \cup {include.v.path}, stack,
                           entries \cup
                             {LogEvent("resolve", depth,
                                       seen \cup {include.v.path},
                                       Append(stack, include.v.path))},
                           include.v.path,
                           resolver.resolve_document[include.v.path])

walk_sections_log(resolver, sections, depth, seen, stack, entries) ==
    IF sections = <<>>
    THEN [ok |-> TRUE, seen |-> seen, entries |-> entries]
    ELSE IF sections[1].kind = "Include"
    THEN walk_section_log(resolver, Tail(sections), depth, seen, stack,
                          entries, include_from_section(sections[1].text))
    ELSE walk_sections_log(resolver, Tail(sections), depth, seen, stack,
                           entries)

verify_recursive_log(resolver, d, depth, seen, stack) ==
    LET entry == LogEvent("entry", depth, seen, stack)
    IN  IF depth_exceeded(depth) \/ ~signature_check(d).ok
        THEN LogStop(seen, {entry})
        ELSE walk_sections_log(resolver, parse_tmd_sections(d.body), depth,
                               seen, stack,
                               {entry, LogEvent("parse", depth, seen, stack)})

\* Compiler::verify, with the log.
compiler_verify_log(resolver, d) == verify_recursive_log(resolver, d, 0, {}, <<>>)

\* A demotion that forgets the signature.
demote_keeps_signature(d) ==
    IF d.frontmatter.doc_status = "Published"
       \/ d.frontmatter.doc_status = "Revoked"
    THEN [d EXCEPT !.frontmatter.doc_status = "Draft",
                   !.frontmatter.version_hash = None]
    ELSE d

\* The demotion of Compiler::update.
demote(d) ==
    IF d.frontmatter.doc_status = "Published"
       \/ d.frontmatter.doc_status = "Revoked"
    THEN [d EXCEPT !.frontmatter.doc_status = "Draft",
                   !.frontmatter.signature = None,
                   !.frontmatter.version_hash = None]
    ELSE d

\* An update that only stamps the time.
update_without_demotion(d, t) == update_modified_time(d, t)

\* Compiler::update, t the reading of Utc::now().
update(d, t) == demote(update_modified_time(d, t))

\* A publish that seals whatever the report says.
publish_unchecked(report, d, keypair, t) == Ok(seal(d, keypair, t))

\* The body of Compiler::publish after report = self.verify(&doc).
publish_report(report, d, keypair, t) ==
    IF ~report.ok THEN report
    ELSE IF report.v.errors # <<>>
    THEN Err("Verification", "Cannot publish due to verification errors")
    ELSE Ok(seal(d, keypair, t))

\* Compiler::publish, t the reading of Utc::now() in seal.
publish(resolver, d, keypair, t) ==
    publish_report(compiler_verify(resolver, d), d, keypair, t)

\* A revocation that seals the document with the status it has.
revoke_keeps_status(d, keypair, t1, t2) ==
    Ok(seal(update_modified_time(d, t1), keypair, t2))

\* Compiler::revoke, t1 and t2 the two readings of Utc::now().
revoke(d, keypair, t1, t2) ==
    Ok(seal(update_modified_time(set_status(d, "Revoked"), t1), keypair, t2))

----------------------------------------------------------------------------
(* Rewriting the trace hashes (models.rs).                                 *)

\* An update_hash that writes the prefix of the hash in capitals.
update_hash_capitals(fs, trace) ==
    IF ~JoinExists(fs, trace.source)
    THEN Err("Resolution", "Source file not found: " \o trace.source)
    ELSE IF JoinEntry(fs, trace.source).dir THEN Err("Io", "Is a directory")
    ELSE Ok([trace EXCEPT
               !.hash = Some("SHA256:" \o
                             sha256_hex(JoinEntry(fs, trace.source).bytes))])

\* TraceBlock::update_hash below base_path, whose files are fs: the join of
\* base_path and source is read with no validation.
update_hash(fs, trace) ==
    IF ~JoinExists(fs, trace.source)
    THEN Err("Resolution", "Source file not found: " \o trace.source)
    ELSE IF JoinEntry(fs, trace.source).dir THEN Err("Io", "Is a directory")
    ELSE Ok([trace EXCEPT
               !.hash = Some(hash_string(JoinEntry(fs, trace.source).bytes))])

RECURSIVE rewrite_sections(_, _, _)

\* The trace arm of the loop, t the result of update_hash.
rewrite_trace(fs, rest, new_body, t) ==
    IF ~t.ok THEN t
    ELSE rewrite_sections(fs, rest,
             new_body \o <<"~~~trace", "LF">> \o trace_to_yaml(t.v, 1)
                      \o <<"~~~", "LF">>)

\* A loop that pushes paragraphs and includes trimmed.
rewrite_section_trimmed(fs, section, rest, new_body) ==
    IF section.kind = "Trace"
    THEN rewrite_trace(fs, rest, new_body, update_hash(fs, section.trace))
    ELSE rewrite_sections(fs, rest, new_body \o trim(section.text))

rewrite_section(fs, section, rest, new_body) ==
    IF section.kind = "Trace"
    THEN rewrite_trace(fs, rest, new_body, update_hash(fs, section.trace))
    ELSE rewrite_sections(fs, rest, new_body \o section.text)

rewrite_sections(fs, sections, new_body) ==
    IF sections = <<>> THEN Ok(new_body)
    ELSE rewrite_section(fs, sections[1], Tail(sections), new_body)

\* An assignment of the body that also drops the seal.
replace_body_unsealed(d, new_body) ==
    IF ~new_body.ok THEN new_body
    ELSE Ok(demote([d EXCEPT !.body = new_body.v]))

\* self.body = new_body, reached only when no update_hash failed.
replace_body(d, new_body) ==
    IF ~new_body.ok THEN new_body ELSE Ok([d EXCEPT !.body = new_body.v])

\* TracedDocument::update_all_traces: Ok(the document after the call), or
\* the error, in which case the document is as before the call.
update_all_traces(fs, d) ==
    replace_body(d, rewrite_sections(fs, parse_tmd_sections(d.body), <<>>))

\* new_body at the moment the loop of update_all_traces is left, by its end
\* or by the ? on update_hash.
RECURSIVE new_body_at_exit(_, _, _)
new_body_at_exit(fs, sections, new_body) ==
    IF sections = <<>> THEN new_body
    ELSE IF sections[1].kind # "Trace"
    THEN new_body_at_exit(fs, Tail(sections), new_body \o sections[1].text)
    ELSE LET t == update_hash(fs, sections[1].trace)
         IN  IF ~t.ok THEN new_body
             ELSE new_body_at_exit(fs, Tail(sections),
                      new_body \o <<"~~~trace", "LF">>
                               \o trace_to_yaml(t.v, 1) \o <<"~~~", "LF">>)

\* An early return that stores what was written so far.
early_return_partial(d, new_body) == [d EXCEPT !.body = new_body]

\* The ? on update_hash returns early: new_body and the sections are locals
\* and are dropped, self is as it was.
early_return(d, new_body) == d

\* self after doc.update_all_traces(base_path), Ok or Err.
self_after_update(fs, d) ==
    LET result == update_all_traces(fs, d)
    IN  IF result.ok THEN result.v
        ELSE early_return(d, new_body_at_exit(fs, parse_tmd_sections(d.body),
                                              <<>>))

----------------------------------------------------------------------------
(* The documents the runs start from.                                      *)

TraceText(yaml_lines) == <<"~~~trace", "LF">> \o yaml_lines \o <<"~~~", "LF">>

\* Prose with a line that ends in white space.
BodyPlain == <<"Claim.", "SP", "LF", "More.">>

\* A claim with a bare trace into ev.md (scenario 1 of the specification).
BodyTrace ==
    <<"Claim.", "LF", "LF">>
    \o TraceText(<<"source: ev.md", "LF", "expected: Verified", "LF">>)

\* A trace whose recorded hash is not that of ev.md.
BodyStale ==
    TraceText(<< "source: ev.md", "LF", YamlWord("hash", hash_string("Changed")),
                 "LF", "expected: Verified", "LF" >>)

\* A trace into a file that does not exist.
BodyGone == TraceText(<<"source: gone.md", "LF", "expected: Verified", "LF">>)

\* An include of a.tmd, which includes b.tmd, which includes a.tmd.
BodyCycle == IncludeText("a.tmd")

\* Includes of a missing document, of one that forbids inclusion, of a leaf.
BodyIncludes ==
    IncludeText("nowhere.tmd") \o <<"LF">> \o IncludeText("closed.tmd")
    \o <<"LF">> \o IncludeText("leaf.tmd")

Bodies == {BodyPlain, BodyTrace, BodyStale, BodyGone, BodyCycle, BodyIncludes}

\* The resolver the Compiler is built with: a FileResolver rooted at the
\* base directory.
Resolver == FileResolver(HostFiles)

----------------------------------------------------------------------------
(* The lifecycle of one document: TracedDocument::new, then any sequence   *)
(* of seal, Compiler::update, Compiler::publish, Compiler::revoke and      *)
(* update_all_traces, with verify and Compiler::verify as observers.       *)

Init ==
    /\ now = 0
    /\ \E content \in Bodies : doc = new("Final Report", content, "id-1", 0)
    /\ pre = doc
    /\ last = [op |-> "new"]
    /\ seals = <<>>
    /\ history = <<>>

\* Time passes between two operations.
Tick ==
    /\ now < MaxTime
    /\ now' = now + 1
    /\ UNCHANGED <<doc, pre, last, seals, history>>

\* doc = doc.seal(&keypair)
Seal(keypair) ==
    /\ Len(history) < MaxSteps
    /\ ~SealOverflows(doc)
    /\ doc' = seal(doc, keypair, now)
    /\ pre' = doc
    /\ last' = [op |-> "seal", keypair |-> keypair, t |-> now]
    /\ seals' = Append(seals, doc'.frontmatter.version_hash.v)
    /\ history' = Append(history, "seal")
    /\ UNCHANGED now

\* doc = compiler.update(doc, None)?
Update ==
    /\ Len(history) < MaxSteps
    /\ doc' = update(doc, now)
    /\ pre' = doc
    /\ last' = [op |-> "update", t |-> now]
    /\ history' = Append(history, "update")
    /\ UNCHANGED <<now, seals>>

\* compiler.publish(doc, &keypair) returns Ok: the caller owns the result.
PublishOk(keypair) ==
    /\ Len(history) < MaxSteps
    /\ ~SealOverflows(doc)
    /\ \E result \in {publish(Resolver, doc, keypair, now)} :
         /\ result.ok
         /\ doc' = result.v
         /\ seals' = Append(seals, result.v.frontmatter.version_hash.v)
    /\ pre' = doc
    /\ last' = [op |-> "publish", keypair |-> keypair, t |-> now,
                result |-> Ok("document")]
    /\ history' = Append(history, "publish")
    /\ UNCHANGED now

\* compiler.publish(doc, &keypair) returns Err: no document comes back; doc
\* stays the document that was passed in.
PublishErr(keypair) ==
    /\ \E result \in {publish(Resolver, doc, keypair, now)} :
         /\ ~result.ok
         /\ last' = [op |-> "publish", keypair |-> keypair, t |-> now,
                     result |-> result]
    /\ pre' = doc
    /\ UNCHANGED <<doc, now, seals, history>>

\* doc = compiler.revoke(doc, &keypair)?; the clock is read twice.
Revoke(keypair) ==
    /\ Len(history) < MaxSteps
    /\ ~SealOverflows(doc)
    /\ \E t2 \in now..MaxTime :
         /\ doc' = revoke(doc, keypair, now, t2).v
         /\ last' = [op |-> "revoke", keypair |-> keypair, t |-> t2]
         /\ now' = t2
    /\ pre' = doc
    /\ seals' = Append(seals, doc'.frontmatter.version_hash.v)
    /\ history' = Append(history, "revoke")

\* doc.update_all_traces(base_path) returns Ok.
UpdateAllTracesOk ==
    /\ Len(history) < MaxSteps
    /\ \E result \in {update_all_traces(HostFiles, doc)} :
         /\ result.ok
         /\ doc' = result.v
    /\ pre' = doc
    /\ last' = [op |-> "update_all_traces", result |-> Ok("unit")]
    /\ history' = Append(history, "update_all_traces")
    /\ UNCHANGED <<now, seals>>

\* doc.update_all_traces(base_path) returns Err.
UpdateAllTracesErr ==
    /\ \E result \in {update_all_traces(HostFiles, doc)} :
         /\ ~result.ok
         /\ last' = [op |-> "update_all_traces", result |-> result]
    /\ pre' = doc
    /\ UNCHANGED <<doc, now, seals, history>>

\* doc.verify(&keypair.verifying_key)
Verify(keypair) ==
    /\ pre' = doc
    /\ last' = [op |-> "verify", keypair |-> keypair,
                result |-> verify(doc, verifying_key(keypair))]
    /\ UNCHANGED <<doc, now, seals, history>>

\* compiler.verify(&doc)
CompilerVerify ==
    /\ pre' = doc
    /\ last' = [op |-> "compiler_verify", result |-> compiler_verify(Resolver, doc)]
    /\ UNCHANGED <<doc, now, seals, history>>

Next ==
    \/ Tick
    \/ \E keypair \in Keys : Seal(keypair)
    \/ Update
    \/ \E keypair \in Keys : PublishOk(keypair)
    \/ \E keypair \in Keys : PublishErr(keypair)
    \/ \E keypair \in Keys : Revoke(keypair)
    \/ UpdateAllTracesOk
    \/ UpdateAllTracesErr
    \/ \E keypair \in Keys : Verify(keypair)
    \/ CompilerVerify

Spec == Init /\ [][Next]_vars

----------------------------------------------------------------------------
(* The builder interface of TracedDocument next to the lifecycle: the      *)
(* setters author, set_status, extra_info and update_modified_time applied *)
(* to the document between seals.                                          *)

Authors == {"Ada"}

ExtraKeys == {"note"}

\* doc = doc.author(a)
Author(a) ==
    /\ Len(history) < MaxSteps
    /\ doc' = author(doc, a)
    /\ pre' = doc
    /\ last' = [op |-> "author", author |-> a]
    /\ history' = Append(history, "author")
    /\ UNCHANGED <<now, seals>>

\* doc = doc.set_status(status)
SetStatus(status) ==
    /\ Len(history) < MaxSteps
    /\ doc' = set_status(doc, status)
    /\ pre' = doc
    /\ last' = [op |-> "set_status", status |-> status]
    /\ history' = Append(history, "set_status")
    /\ UNCHANGED <<now, seals>>

\* doc = doc.extra_info(key, value)
ExtraInfo(key, value) ==
    /\ Len(history) < MaxSteps
    /\ doc' = extra_info(doc, key, value)
    /\ pre' = doc
    /\ last' = [op |-> "extra_info", key |-> key, value |-> value]
    /\ history' = Append(history, "extra_info")
    /\ UNCHANGED <<now, seals>>

\* doc = doc.update_modified_time()
UpdateModifiedTime ==
    /\ Len(history) < MaxSteps
    /\ doc' = update_modified_time(doc, now)
    /\ pre' = doc
    /\ last' = [op |-> "update_modified_time", t |-> now]
    /\ history' = Append(history, "update_modified_time")
    /\ UNCHANGED <<now, seals>>

NextApi ==
    \/ Tick
    \/ \E keypair \in Keys : Seal(keypair)
    \/ \E keypair \in Keys : Revoke(keypair)
    \/ Update
    \/ UpdateAllTracesOk
    \/ \E a \in Authors : Author(a)
    \/ \E status \in DocStatus : SetStatus(status)
    \/ \E key \in ExtraKeys : ExtraInfo(key, "n")
    \/ UpdateModifiedTime

SpecApi == Init /\ [][NextApi]_vars

----------------------------------------------------------------------------
(* Sealing, tampering and verifying any document: the frontmatter and the  *)
(* body are public fields, and parse_tmd reads them from a file, so a      *)
(* document handed to seal need not come from TracedDocument::new.         *)

\* Bodies of one-character words with white space and a zero-width space.
DocBodies ==
    { <<"a">>, <<"a", "SP", "LF", "b", "LF">>, <<"a", "ZWSP", "b">> }

\* protocol_version strings: two of the registry and one unknown to it.
DocProtocols == {"1.0", "2.0", "9.9"}

\* extra maps: none, one of its own key, one with keys of hashed fields.
DocExtras ==
    { None, Some("note" :> "n"),
      Some(("title" :> "Shadow") @@ ("protocol_version" :> "1.0")),
      Some(("doc_version" :> "7") @@ ("doc_status" :> "draft")) }

DocVersions == {0, U32_MAX}

\* The digest a document sealed earlier carries.
OldHash == compute_version_hash(new("Old", <<"old">>, "id-0", 0))

OtherHash == compute_version_hash(new("Other", <<"other">>, "id-0", 0))

Documents ==
    { [ frontmatter |->
            [FrontMatterDefault("id-1", 0) EXCEPT
                 !.title = "Final Report",
                 !.author = Some("Ada"),
                 !.doc_status = status,
                 !.protocol_version = protocol_version,
                 !.extra = extra,
                 !.doc_version = doc_version,
                 !.version_hash = version_hash],
        body |-> body ] :
      status \in DocStatus, protocol_version \in DocProtocols,
      extra \in DocExtras, doc_version \in DocVersions,
      version_hash \in {None, Some(OldHash)}, body \in DocBodies }

InitDoc ==
    /\ now = 0
    /\ doc \in Documents
    /\ pre = doc
    /\ last = [op |-> "document"]
    /\ seals = <<>>
    /\ history = <<>>

\* The characters a tampering writes into the body.
TamperChars == {"x", "SP", "ZWSP"}

\* The bodies one character away from b: one replaced, inserted or deleted.
BodyEdits(b) ==
    (   { [b EXCEPT ![i] = c] : i \in 1..Len(b), c \in TamperChars }
     \cup { SubSeq(b, 1, i - 1) \o <<c>> \o SubSeq(b, i, Len(b)) :
              i \in 1..(Len(b) + 1), c \in TamperChars }
     \cup { SubSeq(b, 1, i - 1) \o SubSeq(b, i + 1, Len(b)) : i \in 1..Len(b) } )
    \ {b}

\* The protocol_version strings one character away from v.
ProtocolEdits(v) ==
    CASE v = "1.0" -> {"2.0", "1.1", "9.0"}
      [] v = "2.0" -> {"1.0", "9.0"}
      [] OTHER -> {"9.0"}

\* The changes of one hashed value of d, each named by the key of fm_map the
\* value is hashed under ("body" for the body).
Tamperings(d) ==
         { [field |-> "body", doc |-> [d EXCEPT !.body = b]] :
             b \in BodyEdits(d.body) }
    \cup { [field |-> "title",
            doc |-> [d EXCEPT !.frontmatter.title = "Final Rep0rt"]],
           [field |-> "author",
            doc |-> [d EXCEPT !.frontmatter.author = Some("Ado")]],
           [field |-> "policy_allow_include",
            doc |-> [d EXCEPT !.frontmatter.policy.allow_include = ~@]],
           [field |-> "policy_allow_quote",
            doc |-> [d EXCEPT !.frontmatter.policy.allow_quote = ~@]],
           [field |-> "policy_require_attribution",
            doc |-> [d EXCEPT !.frontmatter.policy.require_attribution = ~@]],
           [field |-> "created_at",
            doc |-> [d EXCEPT !.frontmatter.created_at = @ + 1]],
           [field |-> "doc_version",
            doc |-> [d EXCEPT !.frontmatter.doc_version = wrapping_inc(@)]] }
    \cup { [field |-> "protocol_version",
            doc |-> [d EXCEPT !.frontmatter.protocol_version = v]] :
             v \in ProtocolEdits(d.frontmatter.protocol_version) }
    \cup (IF IsSome(d.frontmatter.prev_version_hash)
          THEN { [field |-> "prev_version_hash",
                  doc |-> [d EXCEPT !.frontmatter.prev_version_hash =
                               Some(OtherHash)]] }
          ELSE {})

\* doc = doc.seal(&keypair) returns; on doc_version = u32::MAX this is the
\* build whose integer arithmetic wraps.
SealDocument(keypair) ==
    /\ history = <<>>
    /\ doc' = seal(doc, keypair, now)
    /\ pre' = doc
    /\ last' = [op |-> "seal", keypair |-> keypair, t |-> now]
    /\ seals' = Append(seals, doc'.frontmatter.version_hash.v)
    /\ history' = <<"seal">>
    /\ UNCHANGED now

\* doc.seal(&keypair) panics on doc_version += 1 in a build with overflow
\* checks: nothing is returned.
SealPanics(keypair) ==
    /\ history = <<>>
    /\ SealOverflows(doc)
    /\ pre' = doc
    /\ last' = [op |-> "seal_panic", keypair |-> keypair]
    /\ history' = <<"seal_panic">>
    /\ UNCHANGED <<doc, now, seals>>

\* One hashed value of the sealed document is changed; version_hash and
\* signature stay as stored.
Tamper ==
    /\ last.op = "seal"
    /\ \E tampering \in Tamperings(doc) :
         /\ doc' = tampering.doc
         /\ last' = [op |-> "tamper", keypair |-> last.keypair,
                     field |-> tampering.field]
    /\ pre' = doc
    /\ history' = Append(history, "tamper")
    /\ UNCHANGED <<now, seals>>

\* doc.verify(&keypair.verifying_key) with the key the document was sealed
\* with, right after the seal or after the tampering.
VerifySealed ==
    /\ last.op \in {"seal", "tamper"}
    /\ last' = [op |-> "verify", subject |-> last,
                result |-> verify(doc, verifying_key(last.keypair))]
    /\ UNCHANGED <<doc, now, pre, seals, history>>

\* The values version_hash and signature are set to.
SealFields ==
    { <<vh, sig>> :
        vh \in {None, Some(OldHash), Some(OtherHash)},
        sig \in {None, Some(sign("k1", OldHash)), Some(sign("k2", OtherHash))} }

\* version_hash and signature of the document, sealed or not, are set to
\* other values; every other field and the body stay.
SetSealFields ==
    /\ last.op \in {"document", "seal"}
    /\ \E fields \in SealFields :
         /\ doc' = [doc EXCEPT !.frontmatter.version_hash = fields[1],
                               !.frontmatter.signature = fields[2]]
         /\ doc' # doc
    /\ pre' = doc
    /\ last' = [op |-> "seal_fields"]
    /\ history' = Append(history, "seal_fields")
    /\ UNCHANGED <<now, seals>>

\* doc.verify(&keypair.verifying_key) with any key, of the document as it
\* stands: unsealed, sealed, tampered with or with other seal fields.
VerifyWith(keypair) ==
    /\ last.op \in {"document", "seal", "tamper", "seal_fields"}
    /\ last' = [op |-> "verify_with", subject |-> last, keypair |-> keypair,
                result |-> verify(doc, verifying_key(keypair))]
    /\ UNCHANGED <<doc, now, pre, seals, history>>

NextDoc ==
    \/ \E keypair \in Keys : SealDocument(keypair)
    \/ \E keypair \in Keys : SealPanics(keypair)
    \/ Tamper
    \/ VerifySealed
    \/ SetSealFields
    \/ \E keypair \in Keys : VerifyWith(keypair)

SpecDoc == InitDoc /\ [][NextDoc]_vars

----------------------------------------------------------------------------
(* Compiler::verify over documents and files of any shape: the document    *)
(* handed to verify is doc, the files the resolver reads are last.files.   *)

\* The values of public_key: none, the key the document is sealed with, the
\* other key, a text that is no hex, two bytes, 32 bytes that are no point.
PublicKeys ==
    { None, Some(public_key_hex("k1")), Some(public_key_hex("k2")),
      Some("zz"), Some("abcd"), Some("badpoint") }

\* A document as a file holds it.  A Published or Revoked one was sealed, as
\* the seal command does it: public_key is set, then the document is sealed.
StoredDoc(id, status, allow_include, public_key, body) ==
    IF status \in {"Published", "Revoked"}
    THEN seal([DiskDoc(id, status, allow_include, body)
                 EXCEPT !.frontmatter.public_key = public_key], "k1", 0)
    ELSE [DiskDoc(id, status, allow_include, body)
            EXCEPT !.frontmatter.public_key = public_key]

\* The i-th of n documents that include one another in a row; the last one
\* includes the document ChainPath(back) when back > 0 (one of the row when
\* back <= n, a missing one otherwise), and nothing when back = 0.
ChainDoc(i, n, back, status) ==
    StoredDoc(ChainPath(i), status, TRUE, None,
              IF i < n THEN IncludeText(ChainPath(i + 1))
              ELSE IF back > 0 THEN IncludeText(ChainPath(back))
              ELSE <<"Leaf.">>)

ChainFiles(n, back, status) ==
    [ path \in { ChainPath(i) : i \in 1..n } |->
        DocFile(path, ChainDoc(CHOOSE i \in 1..n : ChainPath(i) = path,
                               n, back, status)) ]

\* The document handed to verify is a new one that includes the first of the
\* chain, or it is the first of the chain itself.
ChainWorlds ==
    { [ files |-> ChainFiles(n, back, status),
        root |-> IF n = 0 THEN new("Root", <<"Root.">>, "id-1", 0)
                 ELSE IF first THEN ChainDoc(1, n, back, status)
                 ELSE new("Root", IncludeText(ChainPath(1)), "id-1", 0) ] :
        n \in 0..MaxChain, back \in 0..MaxChain, status \in DocStatus,
        first \in BOOLEAN }

\* a.tmd and b.tmd both include leaf.tmd, whose trace carries a stale hash;
\* the document handed to verify includes two of the three.
DiamondFiles(status) ==
       ("ev.md" :> File("Verified"))
    @@ ("a.tmd" :> DocFile("a", StoredDoc("id-a", "Notes", TRUE, None,
                                          IncludeText("leaf.tmd"))))
    @@ ("b.tmd" :> DocFile("b", StoredDoc("id-b", "Draft", TRUE, None,
                                          IncludeText("leaf.tmd"))))
    @@ ("leaf.tmd" :> DocFile("leaf", StoredDoc("id-l", status, TRUE, None,
                                                BodyStale)))

DiamondWorlds ==
    { [ files |-> DiamondFiles(status),
        root |-> StoredDoc("id-1", root_status, TRUE, None,
                     IncludeText(p) \o <<"LF">> \o IncludeText(q)) ] :
        status \in DocStatus, root_status \in DocStatus,
        p \in {"a.tmd", "b.tmd", "leaf.tmd"},
        q \in {"a.tmd", "b.tmd", "leaf.tmd"} }

\* The YAML of a trace block: source, hash, selector and extractor as given,
\* expected the word Verified.
TraceYaml(source, hash, selector, extractor) ==
    <<YamlWord("source", source), "LF">>
    \o (IF IsSome(hash) THEN <<YamlWord("hash", hash.v), "LF">> ELSE <<>>)
    \o (IF IsSome(selector)
        THEN <<YamlWord("selector", selector.v), "LF">> ELSE <<>>)
    \o (IF IsSome(extractor)
        THEN <<YamlWord("extractor", extractor.v), "LF">> ELSE <<>>)
    \o <<"expected: Verified", "LF">>

\* The sources of a trace: a file, a missing file, a path that leaves the
\* base directory, an absolute path.
TraceSources == {"ev.md", "gone.md", "../secret", "/etc/passwd"}

\* The hashes of a trace: none, that of ev.md, that of other bytes, that of
\* ev.md with the prefix in capitals.
TraceHashes ==
    { None, Some(hash_string("Verified")), Some(hash_string("Changed")),
      Some("SHA256:" \o sha256_hex("Verified")) }

\* The selectors of a trace: none, one that extracts Verified from ev.md,
\* one that matches nothing, one that is no regex.
TraceSelectors == {None, Some("Ver.+"), Some("Changed"), Some("(")}

TraceExtractors == {None, Some("xpath")}

\* A document of any status and key that holds one trace, next to the files
\* of the base directory.
TraceWorlds ==
    { [ files |-> HostFiles,
        root |-> StoredDoc("id-1", status, TRUE, public_key,
                     TraceText(TraceYaml(source, hash, selector, extractor))) ] :
        status \in DocStatus, public_key \in PublicKeys,
        source \in TraceSources, hash \in TraceHashes,
        selector \in TraceSelectors, extractor \in TraceExtractors }

\* The include blocks of the including document: of leaf.tmd, of a missing
\* document, of paths that leave the base directory, and one whose YAML is
\* no mapping.
IncludeBlocks ==
    { IncludeText(path) :
        path \in {"leaf.tmd", "nowhere.tmd", "../secret", "/etc/passwd"} }
    \cup { <<"~~~include", "LF", "nonsense", "LF", "~~~">> }

\* The bodies of leaf.tmd: prose, or a trace that passes, that carries a
\* stale hash, that names a missing file.
LeafBodies == {<<"Leaf.">>, BodyTrace, BodyStale, BodyGone}

\* A document with an include block and, below it, a trace with a stale
\* hash; leaf.tmd is of any status, policy, key and body.
IncludeWorlds ==
    { [ files |-> ("leaf.tmd" :> DocFile("leaf",
                       StoredDoc("id-l", status, allow_include, public_key,
                                 body))) @@ HostFiles,
        root |-> StoredDoc("id-1", root_status, TRUE, None,
                     block \o <<"LF">> \o BodyStale) ] :
        root_status \in DocStatus, block \in IncludeBlocks,
        status \in DocStatus, allow_include \in BOOLEAN,
        public_key \in PublicKeys, body \in LeafBodies }

\* The pieces bodies are put together from: prose, a blank line, a trace
\* without hash, a trace with a stale hash, an include block, a trace block
\* whose YAML is no mapping, a trace block with indented fences, prose with
\* no line end, a trace block that is never closed, a block of code, prose
\* with a CR LF line end, and a trace into a missing file.
BodyPieces ==
    { <<"Intro.", "LF">>,
      <<"LF">>,
      TraceText(TraceYaml("ev.md", None, None, None)),
      BodyStale,
      IncludeText("leaf.tmd") \o <<"LF">>,
      <<"~~~trace", "LF", "nonsense", "LF", "~~~", "LF">>,
      <<"SP", "SP", "~~~trace", "LF", "source: ev.md", "LF",
        "expected: Verified", "LF", "SP", "~~~", "LF">>,
      <<"Tail.">>,
      <<"~~~trace", "LF", "source: ev.md", "LF">>,
      <<"~~~text", "LF", "code", "LF", "~~~", "LF">>,
      <<"Dos.", "CR", "LF">>,
      BodyGone }

\* The longest body, in pieces.
MaxPieces == 3

RECURSIVE Concat(_)
Concat(pieces) ==
    IF pieces = <<>> THEN <<>> ELSE pieces[1] \o Concat(Tail(pieces))

\* The documents whose body is a row of at most n pieces; they stand next to
\* the files of the base directory.
MixedRoots(n) ==
    { StoredDoc("id-1", "Notes", TRUE, None, Concat(pieces)) :
        pieces \in UNION { [1..k -> BodyPieces] : k \in 1..n } }

Worlds ==
    ChainWorlds \cup DiamondWorlds \cup TraceWorlds \cup IncludeWorlds

InitFiles ==
    /\ now = 0
    /\ \/ \E world \in Worlds :
            /\ doc = world.root
            /\ last = [op |-> "files", files |-> world.files]
       \/ /\ doc \in MixedRoots(MaxPieces)
          /\ last = [op |-> "files", files |-> HostFiles]
    /\ pre = doc
    /\ seals = <<>>
    /\ history = <<>>

\* Compiler::new(&resolver).verify(&doc), the resolver a FileResolver over
\* the files.
VerifyInFiles ==
    /\ last.op = "files"
    /\ last' = [ op |-> "compiler_verify", files |-> last.files,
                 result |-> compiler_verify(FileResolver(last.files), doc) ]
    /\ pre' = doc
    /\ UNCHANGED <<doc, now, seals, history>>

\* self.verify_trace(&trace) on a trace section of the document.
VerifyTraceInFiles ==
    /\ last.op = "files"
    /\ \E sections \in {parse_tmd_sections(doc.body)} :
         \E i \in 1..Len(sections) :
           /\ sections[i].kind = "Trace"
           /\ last' = [ op |-> "verify_trace", files |-> last.files,
                        trace |-> sections[i].trace,
                        result |-> verify_trace(FileResolver(last.files),
                                                sections[i].trace) ]
    /\ pre' = doc
    /\ UNCHANGED <<doc, now, seals, history>>

\* doc.update_all_traces(base_path), base_path the directory of the files.
UpdateTracesInFiles ==
    /\ last.op = "files"
    /\ \E result \in {update_all_traces(last.files, doc)} :
         /\ doc' = self_after_update(last.files, doc)
         /\ last' = [ op |-> "update_all_traces", files |-> last.files,
                      result |-> IF result.ok THEN Ok("unit") ELSE result ]
    /\ pre' = doc
    /\ UNCHANGED <<now, seals, history>>

\* Compiler::verify of the same document over the same files, once more.
VerifyAgainInFiles ==
    /\ last.op = "compiler_verify"
    /\ last' = [ op |-> "compiler_verify_again", files |-> last.files,
                 first |-> last.result,
                 result |-> compiler_verify(FileResolver(last.files), doc) ]
    /\ UNCHANGED <<doc, now, pre, seals, history>>

\* Compiler::new(&resolver).verify(&doc), seen and the entries of
\* verify_recursive observed.
VerifyLogInFiles ==
    /\ last.op = "files"
    /\ last' = [ op |-> "compiler_verify_log", files |-> last.files,
                 result |-> compiler_verify(FileResolver(last.files), doc),
                 log |-> compiler_verify_log(FileResolver(last.files), doc) ]
    /\ pre' = doc
    /\ UNCHANGED <<doc, now, seals, history>>

\* Compiler::new(&resolver).verify(&doc) after update_all_traces returned
\* Ok, the resolver a FileResolver over the same, unchanged files.
VerifyUpdatedInFiles ==
    /\ last.op = "update_all_traces"
    /\ last.result.ok
    /\ last' = [ op |-> "verify_updated", files |-> last.files,
                 result |-> compiler_verify(FileResolver(last.files), doc) ]
    /\ UNCHANGED <<doc, now, pre, seals, history>>

NextVerify ==
    \/ VerifyUpdatedInFiles
    \/ VerifyInFiles
    \/ VerifyLogInFiles
    \/ VerifyTraceInFiles
    \/ UpdateTracesInFiles
    \/ VerifyAgainInFiles

SpecVerify == InitFiles /\ [][NextVerify]_vars

----------------------------------------------------------------------------
(* FileResolver over paths of any shape: the source asked for is           *)
(* last.source, the files below the base directory are last.files.         *)

\* A base directory with a directory a, in it a file and a link that leads
\* out of the base directory, and a file b.
PathFiles ==
       ("a" :> Dir)
    @@ ("a/a" :> File("Deep"))
    @@ ("a/b" :> Outside("TopSecret"))
    @@ ("b" :> File("Plain"))
    @@ HostFiles

\* A base directory in which a is a link to a directory outside: a/a is a
\* file of that directory, a/.. its parent and a/../b a file of the parent.
LinkDirFiles ==
       ("a" :> OutDir)
    @@ ("a/a" :> Outside("TopSecret"))
    @@ ("a/.." :> OutDir)
    @@ ("a/../b" :> Outside("Other"))
    @@ ("b" :> File("Plain"))

Layouts == {HostFiles, PathFiles, LinkDirFiles}

InitPath ==
    /\ now = 0
    /\ doc = new("Root", <<"Root.">>, "id-1", 0)
    /\ \E fs \in Layouts : \E source \in Sources :
         last = [op |-> "path", files |-> fs, source |-> source]
    /\ pre = doc
    /\ seals = <<>>
    /\ history = <<>>

\* FileResolver::validate_path
ValidatePath ==
    /\ last.op = "path"
    /\ last' = [ op |-> "validate_path", files |-> last.files,
                 source |-> last.source,
                 result |-> validate_path(last.files, last.source),
                 calls |-> validate_path_calls(last.files, last.source) ]
    /\ UNCHANGED <<doc, now, pre, seals, history>>

\* FileResolver::resolve_bytes
ResolveBytes ==
    /\ last.op = "path"
    /\ last' = [ op |-> "resolve_bytes", files |-> last.files,
                 source |-> last.source,
                 result |-> file_resolve_bytes(last.files, last.source),
                 calls |-> file_resolve_bytes_calls(last.files, last.source) ]
    /\ UNCHANGED <<doc, now, pre, seals, history>>

\* FileResolver::resolve_document
ResolveDocument ==
    /\ last.op = "path"
    /\ last' = [ op |-> "resolve_document", files |-> last.files,
                 source |-> last.source,
                 result |-> file_resolve_document(last.files, last.source),
                 calls |-> file_resolve_bytes_calls(last.files, last.source) ]
    /\ UNCHANGED <<doc, now, pre, seals, history>>

NextPath ==
    \/ ValidatePath
    \/ ResolveBytes
    \/ ResolveDocument

SpecPath == InitPath /\ [][NextPath]_vars

----------------------------------------------------------------------------
(* canonicalize_text over texts of any shape: the text is last.text.       *)

\* The longest text, in characters.
MaxText == 4

\* The characters of the texts: a letter and every one-character token.
TextChars == {"a"} \cup DOMAIN CharCode

Texts == UNION { [1..k -> TextChars] : k \in 0..MaxText }

InitText ==
    /\ now = 0
    /\ doc = new("Root", <<"Root.">>, "id-1", 0)
    /\ \E text \in Texts : last = [op |-> "text", text |-> text]
    /\ pre = doc
    /\ seals = <<>>
    /\ history = <<>>

\* canonicalize_text(text)
CanonicalizeText ==
    /\ last.op = "text"
    /\ last' = [ op |-> "canonicalize_text", text |-> last.text,
                 result |-> canonicalize_text(last.text) ]
    /\ UNCHANGED <<doc, now, pre, seals, history>>

\* canonicalize_text of the text canonicalize_text returned.
CanonicalizeAgain ==
    /\ last.op = "canonicalize_text"
    /\ last' = [ op |-> "canonicalize_again", text |-> last.text,
                 first |-> last.result,
                 result |-> canonicalize_text(last.result) ]
    /\ UNCHANGED <<doc, now, pre, seals, history>>

NextText ==
    \/ CanonicalizeText
    \/ CanonicalizeAgain

SpecText == InitText /\ [][NextText]_vars

----------------------------------------------------------------------------
(* parse_tmd (markdown.rs): the text of a .tmd file, one token for every   *)
(* dash, read into a document.                                             *)

\* The pattern of splitn: three dashes.
Dashes == <<"-", "-", "-">>

\* str::find("---"): the first place of the pattern in s, 0 when it has none.
find_dashes(s) ==
    LET places == { i \in 1..(Len(s) - 2) : SubSeq(s, i, i + 2) = Dashes }
    IN  IF places = {} THEN 0
        ELSE CHOOSE i \in places : \A j \in places : i <= j

\* content.splitn(3, "---").collect(): at most three parts, the last one the
\* whole rest of the text.
splitn3(content) ==
    LET i == find_dashes(content)
    IN  IF i = 0 THEN <<content>>
        ELSE LET rest == SubSeq(content, i + 3, Len(content))
                 j == find_dashes(rest)
             IN  IF j = 0 THEN <<SubSeq(content, 1, i - 1), rest>>
                 ELSE << SubSeq(content, 1, i - 1),
                         SubSeq(rest, 1, j - 1),
                         SubSeq(rest, j + 3, Len(rest)) >>

\* The keys of the fields of FrontMatter that have no default.
RequiredKeys == {"id:", "title:", "created_at:", "doc_status:"}

\* The values a one-token field is read from.
FieldValues ==
    ("id:" :> ("id-1" :> "id-1")) @@
    ("created_at:" :> ("t0" :> 0)) @@
    ("doc_status:" :> (("notes" :> "Notes") @@ ("draft" :> "Draft") @@
                       ("published" :> "Published") @@
                       ("revoked" :> "Revoked")))

\* A line of a block mapping, "key: value", at the left margin.
IsEntry(l) == Len(l) >= 3 /\ l[1] \in RequiredKeys /\ l[2] = "SP"

EntryValue(l) == trim(SubSeq(l, 3, Len(l)))

\* serde_norway::from_str::<FrontMatter>, for the mappings whose lines are
\* blank or "key: value" with a plain scalar: a line of another shape, a
\* field given twice, a field without default left out or a value of the
\* wrong type is an error.  The title is kept as the text of its scalar.
from_str_frontmatter(yaml_str) ==
    LET entries == SelectSeq(lines(yaml_str), LAMBDA l : trim(l) # <<>>)
        of(key) == { i \in 1..Len(entries) : entries[i][1] = key }
        value(key) == EntryValue(entries[CHOOSE i \in of(key) : TRUE])
        typed(key) ==
            /\ Len(value(key)) = 1
            /\ value(key)[1] \in DOMAIN FieldValues[key]
        read(key) == FieldValues[key][value(key)[1]]
    IN  IF \E i \in 1..Len(entries) : ~IsEntry(entries[i])
        THEN Err("Format", "Failed to parse frontmatter: syntax")
        ELSE IF \E key \in RequiredKeys : Cardinality(of(key)) > 1
        THEN Err("Format", "Failed to parse frontmatter: duplicate field")
        ELSE IF \E key \in RequiredKeys : of(key) = {}
        THEN Err("Format", "Failed to parse frontmatter: missing field")
        ELSE IF value("title:") = <<>> \/ \E key \in DOMAIN FieldValues : ~typed(key)
        THEN Err("Format", "Failed to parse frontmatter: invalid type")
        ELSE Ok([ FrontMatterDefault(read("id:"), read("created_at:")) EXCEPT
                    !.title = value("title:"),
                    !.doc_status = read("doc_status:") ])

\* parse_tmd
parse_tmd(content) ==
    LET parts == splitn3(content)
    IN  IF Len(parts) < 3
        THEN Err("Format", "Invalid TMD format: Missing frontmatter delimiters")
        ELSE LET frontmatter == from_str_frontmatter(parts[2])
             IN  IF ~frontmatter.ok THEN frontmatter
                 ELSE Ok([ frontmatter |-> frontmatter.v,
                           body |-> trim(parts[3]) ])

\* The fields without default, one to a line.
HeadLines ==
    << "id:", "SP", "id-1", "LF", "created_at:", "SP", "t0", "LF",
       "doc_status:", "SP", "draft", "LF" >>

\* What a file holds before its first delimiter, as the delimiter, as the
\* first fields, as the title line, as the line that closes the frontmatter
\* and as the body.
Leads == { <<>>, <<"x">>, <<"SP">>, <<"LF">>, <<"x", "LF">> }

Opens == { Dashes \o <<"LF">>, <<"-", "-", "LF">> }

Heads == { HeadLines, <<"id:", "SP", "id-1", "LF">> }

TitleLines ==
    { <<"title:", "SP", "T">>,
      <<"title:", "SP", "A">> \o Dashes \o <<"B">>,
      <<"title:", "SP", "T", "SP", "-", "-", "SP", "U">> }

Closes ==
    { <<"LF">> \o Dashes \o <<"LF">>,
      <<"LF">> \o Dashes,
      <<"LF">> \o Dashes \o <<"-", "LF">>,
      <<"LF">> \o Dashes \o <<"SP", "x", "LF">>,
      <<"LF", "-", "-", "LF">>,
      <<>> }

TmdBodies ==
    { <<>>, <<"Body.">>,
      <<"Body.", "LF">> \o Dashes \o <<"LF", "More.", "LF">> }

\* The longest text outside the shape of a file, in characters.
MaxFree == 3

FreeTexts == UNION { [1..k -> {"-", "LF", "SP", "x"}] : k \in 0..MaxFree }

TmdContents ==
    FreeTexts \cup
    { Concat(<<lead, open, head, title, close, body>>) :
        lead \in Leads, open \in Opens, head \in Heads,
        title \in TitleLines, close \in Closes, body \in TmdBodies }

InitParse ==
    /\ now = 0
    /\ doc = new("Root", <<"Root.">>, "id-1", 0)
    /\ \E content \in TmdContents : last = [op |-> "content", content |-> content]
    /\ pre = doc
    /\ seals = <<>>
    /\ history = <<>>

\* parse_tmd(content)
ParseTmd ==
    /\ last.op = "content"
    /\ last' = [ op |-> "parse_tmd", content |-> last.content,
                 result |-> parse_tmd(last.content) ]
    /\ UNCHANGED <<doc, now, pre, seals, history>>

\* parse_tmd_sections over the body of the document parse_tmd returned.
ParseSections ==
    /\ last.op = "parse_tmd"
    /\ last.result.ok
    /\ last' = [ op |-> "parse_tmd_sections", content |-> last.content,
                 document |-> last.result.v,
                 result |-> parse_tmd_sections(last.result.v.body) ]
    /\ UNCHANGED <<doc, now, pre, seals, history>>

NextParse ==
    \/ ParseTmd
    \/ ParseSections

SpecParse == InitParse /\ [][NextParse]_vars

----------------------------------------------------------------------------
(* parse_tmd_sections over bodies of any shape, as a whole and line by     *)
(* line: the body is last.before, last.block and last.after in a row.      *)

\* A trace block that parses.
GoodBlock == TraceText(<<"source: ev.md", "LF", "expected: Verified", "LF">>)

\* Closed trace blocks whose content is no TraceBlock: no mapping, nothing,
\* a field left out, a field given twice, fences with white space around
\* them, CR LF line ends, no line end after the closing fence, and a closing
\* fence that reads as an opening one.
MalformedBlocks ==
    { <<"~~~trace", "LF", "nonsense", "LF", "~~~", "LF">>,
      <<"~~~trace", "LF", "~~~", "LF">>,
      <<"~~~trace", "LF", "source: ev.md", "LF", "~~~", "LF">>,
      <<"~~~trace", "LF", "source: ev.md", "LF", "source: gone.md", "LF",
        "expected: Verified", "LF", "~~~", "LF">>,
      <<"SP", "~~~trace", "LF", "nonsense", "LF", "TAB", "~~~", "SP", "LF">>,
      <<"~~~trace", "CR", "LF", "nonsense", "CR", "LF", "~~~", "CR", "LF">>,
      <<"~~~trace", "LF", "nonsense", "LF", "~~~">>,
      <<"~~~trace", "LF", "nonsense", "LF", "~~~trace", "LF">> }

\* The middle of a body: a malformed block, a block that parses, an include
\* block, a trace and an include block that are never closed, a block of
\* code.
MiddleTexts ==
    MalformedBlocks \cup
    { GoodBlock,
      IncludeText("leaf.tmd") \o <<"LF">>,
      <<"~~~trace", "LF", "source: ev.md", "LF">>,
      <<"~~~include", "LF", "path: leaf.tmd", "LF">>,
      <<"~~~text", "LF", "code", "LF", "~~~", "LF">> }

\* What stands before it: nothing, prose, blank lines, prose without line
\* end, whole blocks, a fence of code, and blocks left open.
BeforeTexts ==
    { <<>>, <<"Intro.", "LF">>, <<"LF">>, <<"SP", "LF">>, <<"Intro.">>,
      GoodBlock, IncludeText("leaf.tmd") \o <<"LF">>, <<"~~~text", "LF">>,
      <<"~~~trace", "LF">>,
      <<"~~~include", "LF", "path: leaf.tmd", "LF">> }

\* What stands after it.
AfterTexts ==
    { <<>>, <<"Tail.">>, <<"Tail.", "LF">>, <<"LF", "LF">>, GoodBlock,
      <<"~~~", "LF">>, <<"~~~trace", "LF", "source: ev.md", "LF">>,
      <<"~~~include", "LF">> }

BodyOf(l) == l.before \o l.block \o l.after

\* The state of parse_tmd_sections before its loop.
ParserStart ==
    [sections |-> <<>>, in_block |-> FALSE, block_type |-> "", current |-> <<>>]

InitBody ==
    /\ now = 0
    /\ doc = new("Root", <<"Root.">>, "id-1", 0)
    /\ \E before \in BeforeTexts, block \in MiddleTexts, after \in AfterTexts :
         last = [op |-> "body", before |-> before, block |-> block,
                 after |-> after]
    /\ pre = doc
    /\ seals = <<>>
    /\ history = <<>>

\* parse_tmd_sections(body)
ParseBody ==
    /\ last.op = "body"
    /\ last' = [ op |-> "parse_tmd_sections", before |-> last.before,
                 block |-> last.block, after |-> last.after,
                 result |-> parse_tmd_sections(BodyOf(last)) ]
    /\ UNCHANGED <<doc, now, pre, seals, history>>

\* parse_tmd_sections(body) enters its loop over body.lines().
EnterLoop ==
    /\ last.op = "body"
    /\ last' = [ op |-> "loop", before |-> last.before, block |-> last.block,
                 after |-> last.after, rest |-> lines(BodyOf(last)),
                 st |-> ParserStart ]
    /\ UNCHANGED <<doc, now, pre, seals, history>>

\* One iteration of the loop: was is the state before it, st the one after.
NextLine ==
    /\ last.op \in {"loop", "line"}
    /\ last.rest # <<>>
    /\ last' = [ op |-> "line", before |-> last.before, block |-> last.block,
                 after |-> last.after, line |-> last.rest[1],
                 rest |-> Tail(last.rest), was |-> last.st,
                 st |-> ParseLine(last.st, last.rest[1]) ]
    /\ UNCHANGED <<doc, now, pre, seals, history>>

\* The loop is over: the pending text is flushed and the sections returned.
EndOfInput ==
    /\ last.op \in {"loop", "line"}
    /\ last.rest = <<>>
    /\ last' = [ op |-> "end", before |-> last.before, block |-> last.block,
                 after |-> last.after, was |-> last.st,
                 result |-> flush_paragraph(last.st) ]
    /\ UNCHANGED <<doc, now, pre, seals, history>>

NextBody ==
    \/ ParseBody
    \/ EnterLoop
    \/ NextLine
    \/ EndOfInput

SpecBody == InitBody /\ [][NextBody]_vars

----------------------------------------------------------------------------
(* Properties.  Those of the lifecycle are stated over Spec, with pre the  *)
(* document before the last operation and last the operation itself.      *)

\* The operations that seal: seal, a successful publish, revoke.
SealingOps == {"seal", "publish", "revoke"}

\* The number of seals among the operations h.
SealCount(h) == Cardinality({ i \in 1..Len(h) : h[i] \in SealingOps })

\* C1 as stated: for every document and every keypair k, verify of
\* seal(doc, k) under k's verifying key returns Ok.
C1_RoundTripAnyDocument ==
    (last.op = "verify" /\ last.subject.op = "seal") => last.result.ok

\* C1: for every document whose protocol_version is an entry of the version
\* registry that is not Obsolete, and every keypair k, whenever seal(doc, k)
\* returns, verify of the result under k's verifying key returns Ok.
C1_RoundTripKnownVersion ==
    ( /\ last.op = "verify"
      /\ last.subject.op = "seal"
      /\ is_version_known(doc.frontmatter.protocol_version)
      /\ get_version_status(doc.frontmatter.protocol_version) # "Obsolete" )
    => last.result = Ok("unit")

\* A document with a non-empty extra map and doc_version = u32::MAX, sealed
\* in the wrapping build and verified.
C1_Witness ==
    /\ last.op = "verify"
    /\ last.subject.op = "seal"
    /\ pre.frontmatter.doc_version = U32_MAX
    /\ pre.frontmatter.doc_status = "Revoked"
    /\ IsSome(doc.frontmatter.extra)
    /\ doc.frontmatter.protocol_version = "2.0"
    /\ last.result.ok

C3_StatusSealFields ==
    /\ doc.frontmatter.doc_status \in {"Published", "Revoked"}
         => ( /\ IsSome(doc.frontmatter.version_hash)
              /\ IsSome(doc.frontmatter.signature) )
    /\ doc.frontmatter.doc_status \in {"Notes", "Draft"}
         => ~IsSome(doc.frontmatter.signature)

\* A revoked document was updated, its traces rewritten: a Draft that was
\* sealed.
C3_Witness ==
    /\ history = <<"revoke", "update", "update_all_traces">>
    /\ doc.frontmatter.doc_status = "Draft"
    /\ doc.body # pre.body

\* C4 as stated: every operation other than a seal that changes the body or
\* a hashed frontmatter field of a Published or Revoked document leaves it a
\* Draft with signature and version_hash cleared.
C4_MutationDemotes ==
    ( /\ last.op \in { "update", "update_all_traces", "author", "extra_info",
                       "set_status", "update_modified_time" }
      /\ pre.frontmatter.doc_status \in {"Published", "Revoked"}
      /\ compute_version_hash(doc) # compute_version_hash(pre) )
    => ( /\ doc.frontmatter.doc_status = "Draft"
         /\ ~IsSome(doc.frontmatter.signature)
         /\ ~IsSome(doc.frontmatter.version_hash) )

\* C5: a fresh document sealed once has no prev_version_hash and
\* doc_version 1; sealed twice in a row its prev_version_hash is the
\* version_hash of the first seal and doc_version is 2.
C5_VersionChain ==
    /\ history = <<"seal">>
         => ( /\ doc.frontmatter.prev_version_hash = None
              /\ doc.frontmatter.doc_version = 1 )
    /\ history = <<"seal", "seal">>
         => ( /\ doc.frontmatter.prev_version_hash = Some(seals[1])
              /\ last.op = "seal" => pre.frontmatter.version_hash = Some(seals[1])
              /\ doc.frontmatter.doc_version = 2 )

\* Two seals in a row, with different keys.
C5_Witness ==
    /\ history = <<"seal", "seal">>
    /\ last.op = "seal"
    /\ pre.frontmatter.signature.v.signer # last.keypair
    /\ seals[1] # seals[2]
    /\ doc.frontmatter.version_hash = Some(seals[2])

\* C6 as stated: every seal of a document sealed before stores in
\* prev_version_hash the version_hash of the most recent earlier seal,
\* whatever happened between the two seals.
C6_ChainAppendOnly ==
    ( /\ last.op \in SealingOps
      /\ (last.op = "publish" => last.result.ok)
      /\ pre.frontmatter.doc_version > 0 )
    => doc.frontmatter.prev_version_hash = Some(seals[Len(seals) - 1])

\* C7: doc_version is 0 on TracedDocument::new and equals the number of
\* seals applied (seal, successful publish, revoke); Compiler::update,
\* update_all_traces, verify, Compiler::verify and a refused publish leave it
\* unchanged; it is positive iff the document was sealed, and positive when
\* prev_version_hash is present.
C7_DocVersionCountsSeals ==
    /\ doc.frontmatter.doc_version = SealCount(history)
    /\ SealCount(history) = Len(seals)
    /\ last.op = "new" => doc.frontmatter.doc_version = 0
    /\ ( \/ last.op \in {"update", "update_all_traces", "verify", "compiler_verify"}
         \/ (last.op = "publish" /\ ~last.result.ok) )
         => doc.frontmatter.doc_version = pre.frontmatter.doc_version
    /\ doc.frontmatter.doc_version > 0 <=> (\E i \in 1..Len(history) :
                                              history[i] \in SealingOps)
    /\ IsSome(doc.frontmatter.prev_version_hash)
         => doc.frontmatter.doc_version > 0

\* A publish is refused after two seals and an update.
C7_Witness ==
    /\ history = <<"seal", "revoke", "update">>
    /\ last.op = "publish"
    /\ ~last.result.ok
    /\ doc.frontmatter.doc_version = 2

\* C8: seal leaves a Revoked document Revoked and makes any other Published;
\* the result has version_hash and signature, version_hash being the hash of
\* the document after the status, modified_at, prev_version_hash and
\* doc_version updates, and the signature being over that hash.
C8_SealStatusRule ==
    last.op = "seal" =>
      /\ doc.frontmatter.doc_status =
           (IF pre.frontmatter.doc_status = "Revoked" THEN "Revoked"
            ELSE "Published")
      /\ doc.frontmatter.modified_at = Some(last.t)
      /\ doc.frontmatter.prev_version_hash =
           (IF IsSome(pre.frontmatter.version_hash)
            THEN Some(pre.frontmatter.version_hash.v)
            ELSE pre.frontmatter.prev_version_hash)
      /\ doc.frontmatter.doc_version = wrapping_inc(pre.frontmatter.doc_version)
      /\ IsSome(doc.frontmatter.version_hash)
      /\ IsSome(doc.frontmatter.signature)
      /\ doc.frontmatter.version_hash.v = compute_version_hash(doc)
      /\ doc.frontmatter.version_hash.v.fm["doc_status"] =
           status_lowercase(doc.frontmatter.doc_status)
      /\ doc.frontmatter.version_hash.v.fm["modified_at"] = to_rfc3339(last.t)
      /\ doc.frontmatter.version_hash.v.fm["doc_version"] =
           to_string(doc.frontmatter.doc_version)
      /\ IsSome(doc.frontmatter.prev_version_hash)
           => doc.frontmatter.version_hash.v.fm["prev_version_hash"] =
                hex_encode(doc.frontmatter.prev_version_hash.v)
      /\ doc.frontmatter.signature.v =
           sign(last.keypair, doc.frontmatter.version_hash.v)

\* A revoked document is sealed again, later and with the other key.
C8_Witness ==
    /\ last.op = "seal"
    /\ pre.frontmatter.doc_status = "Revoked"
    /\ doc.frontmatter.doc_status = "Revoked"
    /\ pre.frontmatter.signature.v.signer # last.keypair
    /\ pre.frontmatter.modified_at # Some(last.t)
    /\ IsSome(doc.frontmatter.prev_version_hash)

\* C9: Compiler::update turns a Published or Revoked document into a Draft
\* without signature and version_hash, which verify refuses as not sealed
\* under every key; it leaves the status, version_hash and signature of a
\* Notes or Draft document as they were; and it never changes body, id,
\* created_at, doc_version or prev_version_hash.
C9_UpdateDemotion ==
    last.op = "update" =>
      /\ pre.frontmatter.doc_status \in {"Published", "Revoked"}
           => ( /\ doc.frontmatter.doc_status = "Draft"
                /\ doc.frontmatter.signature = None
                /\ doc.frontmatter.version_hash = None
                /\ \A keypair \in Keys :
                     verify(doc, verifying_key(keypair)) =
                       Err("Verification",
                           "Document is not sealed (missing version_hash)") )
      /\ pre.frontmatter.doc_status \in {"Notes", "Draft"}
           => ( /\ doc.frontmatter.doc_status = pre.frontmatter.doc_status
                /\ doc.frontmatter.version_hash = pre.frontmatter.version_hash
                /\ doc.frontmatter.signature = pre.frontmatter.signature )
      /\ doc.body = pre.body
      /\ doc.frontmatter.id = pre.frontmatter.id
      /\ doc.frontmatter.created_at = pre.frontmatter.created_at
      /\ doc.frontmatter.doc_version = pre.frontmatter.doc_version
      /\ doc.frontmatter.prev_version_hash = pre.frontmatter.prev_version_hash

\* A document sealed and then revoked is updated, later.
C9_Witness ==
    /\ last.op = "update"
    /\ pre.frontmatter.doc_status = "Revoked"
    /\ IsSome(pre.frontmatter.prev_version_hash)
    /\ doc.frontmatter.doc_status = "Draft"
    /\ doc.frontmatter.modified_at # pre.frontmatter.modified_at

\* C10: Compiler::publish returns Err(Verification) and seals nothing when
\* Compiler::verify reports an error, returns verify's own error when verify
\* fails, and otherwise returns exactly seal(doc, keypair).
C10_PublishRefuses ==
    last.op = "publish" =>
      /\ ~compiler_verify(Resolver, pre).ok
           => ( /\ last.result = compiler_verify(Resolver, pre)
                /\ last.result.kind = "Security"
                /\ doc = pre )
      /\ ( /\ compiler_verify(Resolver, pre).ok
           /\ compiler_verify(Resolver, pre).v.errors # <<>> )
           => ( /\ ~last.result.ok
                /\ last.result.kind = "Verification"
                /\ doc = pre )
      /\ ( /\ compiler_verify(Resolver, pre).ok
           /\ compiler_verify(Resolver, pre).v.errors = <<>> )
           => ( /\ last.result.ok
                /\ doc = seal(pre, last.keypair, last.t) )

\* A sealed document whose trace hash is stale is refused; verify reported
\* an error and a warning.
C10_Witness ==
    /\ last.op = "publish"
    /\ pre.frontmatter.doc_status = "Published"
    /\ compiler_verify(Resolver, pre).ok
    /\ compiler_verify(Resolver, pre).v.errors # <<>>
    /\ compiler_verify(Resolver, pre).v.warnings # <<>>
    /\ last.result.kind = "Verification"

\* C11: Compiler::revoke on a document in any status returns a document with
\* status Revoked and doc_version one higher, with version_hash and signature
\* that verify accepts under the keypair's public key, and with
\* prev_version_hash the version_hash of the input when it had one.
C11_RevokeMarker ==
    last.op = "revoke" =>
      /\ doc.frontmatter.doc_status = "Revoked"
      /\ doc.frontmatter.doc_version = pre.frontmatter.doc_version + 1
      /\ IsSome(doc.frontmatter.version_hash)
      /\ IsSome(doc.frontmatter.signature)
      /\ verify(doc, verifying_key(last.keypair)) = Ok("unit")
      /\ IsSome(pre.frontmatter.version_hash)
           => doc.frontmatter.prev_version_hash = pre.frontmatter.version_hash

\* A published document is revoked with the other key.
C11_Witness ==
    /\ last.op = "revoke"
    /\ pre.frontmatter.doc_status = "Published"
    /\ pre.frontmatter.signature.v.signer # last.keypair
    /\ doc.frontmatter.doc_status = "Revoked"
    /\ doc.frontmatter.prev_version_hash = pre.frontmatter.version_hash
    /\ doc.frontmatter.doc_version = 2

\* The include graph of a document d over the files: the paths of the
\* include blocks of d in order, the documents they resolve to, the paths
\* reached from d through include blocks, and the longest row of pairwise
\* distinct paths in which each document includes the next.
IncludePaths(d) ==
    LET blocks == SelectSeq(parse_tmd_sections(d.body),
                            LAMBDA x : /\ x.kind = "Include"
                                       /\ include_from_section(x.text).ok)
    IN  [i \in 1..Len(blocks) |-> include_from_section(blocks[i].text).v.path]

Included(d) == { IncludePaths(d)[i] : i \in 1..Len(IncludePaths(d)) }

Resolves(files, path) == file_resolve_document(files, path).ok

Target(files, path) == file_resolve_document(files, path).v

RECURSIVE Descendants(_, _, _)
Descendants(files, frontier, found) ==
    IF frontier \subseteq found THEN found
    ELSE LET path == CHOOSE q \in frontier \ found : TRUE
         IN  Descendants(files,
                 frontier \cup (IF Resolves(files, path)
                                THEN Included(Target(files, path)) ELSE {}),
                 found \cup {path})

IncludedBelow(files, d) == Descendants(files, Included(d), {})

OnCycle(files, path) ==
    /\ Resolves(files, path)
    /\ path \in IncludedBelow(files, Target(files, path))

HasCycle(files, d) == \E path \in IncludedBelow(files, d) : OnCycle(files, path)

AllResolve(files, d) ==
    \A path \in IncludedBelow(files, d) : Resolves(files, path)

RECURSIVE LongestChain(_, _, _)
LongestChain(files, d, ancestors) ==
    LET lengths == { 1 + LongestChain(files, Target(files, path),
                                      ancestors \cup {path}) :
                       path \in { q \in Included(d) \ ancestors :
                                    Resolves(files, q) } }
    IN  IF lengths = {} THEN 0
        ELSE CHOOSE m \in lengths : \A k \in lengths : k <= m

IsRow(files, d) ==
    /\ signature_check(d).ok
    /\ \A path \in IncludedBelow(files, d) :
         Resolves(files, path) => signature_check(Target(files, path)).ok
    /\ AllResolve(files, d)
    /\ ~HasCycle(files, d)
    /\ Len(IncludePaths(d)) <= 1
    /\ \A path \in IncludedBelow(files, d) :
         Len(IncludePaths(Target(files, path))) <= 1

C14_OnlyHardFailuresAbort ==
    (last.op = "compiler_verify" /\ ~last.result.ok)
    => ( /\ last.result.kind = "Security"
         /\ last.result.sec \in {"MaxRecursionDepth", "CircularInclude"} )

\* The traces of the trace sections of d, in the order of the body.
Traces(d) ==
    LET sections == parse_tmd_sections(d.body)
    IN  [ i \in { j \in 1..Len(sections) : sections[j].kind = "Trace" } |->
            sections[i].trace ]

\* The resolver refuses the source with a security violation.
RaisesSecurity(files, source) ==
    LET r == FileResolver(files).resolve_bytes[source]
    IN  ~r.ok /\ r.kind = "Security"

\* C15 as stated: a report of Compiler::verify holds no Security error, in
\* errors or demoted to a warning, and verify returns Err when the source of
\* a trace or the path of an include block of the document raises
\* PathTraversal in the resolver.
C15_SecurityNeverCollected ==
    last.op = "compiler_verify" =>
      /\ last.result.ok =>
           /\ \A i \in 1..Len(last.result.v.errors) :
                last.result.v.errors[i].kind # "Security"
           /\ \A i \in 1..Len(last.result.v.warnings) :
                "error" \in DOMAIN last.result.v.warnings[i]
                => last.result.v.warnings[i].error.kind # "Security"
      /\ ( \/ \E i \in DOMAIN Traces(doc) :
                RaisesSecurity(last.files, Traces(doc)[i].source)
           \/ \E path \in Included(doc) : RaisesSecurity(last.files, path) )
         => ~last.result.ok

\* The number of traces of d that verify_trace refuses.
TraceFailures(files, d) ==
    Cardinality({ i \in DOMAIN Traces(d) :
                    ~verify_trace(FileResolver(files), Traces(d)[i]).ok })

\* The number of failing traces met on the walk from d through an include
\* graph without cycle, in documents of one of the statuses: those of d and,
\* for every include block from the i-th on, those met from its document.
\* A document included twice is walked twice.
RECURSIVE FailuresFrom(_, _, _, _)
FailuresFrom(files, d, i, statuses) ==
    IF i > Len(IncludePaths(d))
    THEN IF d.frontmatter.doc_status \in statuses
         THEN TraceFailures(files, d) ELSE 0
    ELSE FailuresFrom(files, d, i + 1, statuses)
         + ( IF Resolves(files, IncludePaths(d)[i])
             THEN FailuresFrom(files, Target(files, IncludePaths(d)[i]), 1,
                               statuses)
             ELSE 0 )

\* The errors a trace of d or of a document below d fails with.
TraceErrorsBelow(files, d) ==
    LET docs == {d} \cup { Target(files, path) :
                             path \in { q \in IncludedBelow(files, d) :
                                          Resolves(files, q) } }
    IN  UNION { { ErrorOf(verify_trace(FileResolver(files), Traces(x)[i])) :
                    i \in { j \in DOMAIN Traces(x) :
                              ~verify_trace(FileResolver(files),
                                            Traces(x)[j]).ok } } :
                x \in docs }

\* The entries of errors that are the error of a trace.
TraceErrorCount(files, d, report) ==
    Cardinality({ i \in 1..Len(report.errors) :
                    report.errors[i] \in TraceErrorsBelow(files, d) })

\* The warnings that carry the error of a trace.
TraceWarningCount(report) ==
    Cardinality({ i \in 1..Len(report.warnings) :
                    "error" \in DOMAIN report.warnings[i] })

\* C16: when no include path is reached again from itself, Compiler::verify
\* does not fail with CircularInclude, also when a path stands in two sibling
\* blocks or is reached through two branches, and a document is verified
\* once for every time it is included: the report holds one finding for
\* every failing trace of every occurrence.
C16_DiamondsPermitted ==
    (last.op = "compiler_verify" /\ ~HasCycle(last.files, doc)) =>
      /\ ~( /\ ~last.result.ok
            /\ last.result.kind = "Security"
            /\ last.result.sec = "CircularInclude" )
      /\ last.result.ok =>
           TraceErrorCount(last.files, doc, last.result.v)
             + TraceWarningCount(last.result.v)
           = FailuresFrom(last.files, doc, 1, DocStatus)

\* The document includes a.tmd and b.tmd, both include leaf.tmd, and the
\* stale trace of leaf.tmd is reported twice.
C16_Witness ==
    /\ last.op = "compiler_verify"
    /\ IncludePaths(doc) = <<"a.tmd", "b.tmd">>
    /\ Included(Target(last.files, "a.tmd")) = {"leaf.tmd"}
    /\ Included(Target(last.files, "b.tmd")) = {"leaf.tmd"}
    /\ last.result.ok
    /\ TraceErrorCount(last.files, doc, last.result.v)
         + TraceWarningCount(last.result.v) = 2

\* C17: a failing trace is reported by the status of the document whose body
\* holds it: as one entry of errors when that document is Published, and as
\* one warning that starts with "Trace warning: ", and no error, when it is
\* Notes, Draft or Revoked.
C17_TraceClassification ==
    ( /\ last.op = "compiler_verify"
      /\ ~HasCycle(last.files, doc)
      /\ last.result.ok )
    => /\ TraceErrorCount(last.files, doc, last.result.v)
           = FailuresFrom(last.files, doc, 1, {"Published"})
       /\ TraceWarningCount(last.result.v)
           = FailuresFrom(last.files, doc, 1, DocStatus \ {"Published"})
       /\ \A i \in 1..Len(last.result.v.warnings) :
            "error" \in DOMAIN last.result.v.warnings[i]
            => /\ last.result.v.warnings[i].warning = "Trace warning: "
               /\ last.result.v.warnings[i].error
                    \in TraceErrorsBelow(last.files, doc)

\* A document that is not Published holds a stale trace and includes
\* leaf.tmd, which is Published and holds a stale trace: one warning, one
\* error.
C17_Witness ==
    /\ last.op = "compiler_verify"
    /\ doc.frontmatter.doc_status = "Revoked"
    /\ TraceFailures(last.files, doc) = 1
    /\ IncludePaths(doc) = <<"leaf.tmd">>
    /\ Target(last.files, "leaf.tmd").frontmatter.doc_status = "Published"
    /\ TraceFailures(last.files, Target(last.files, "leaf.tmd")) = 1
    /\ last.result.ok
    /\ TraceErrorCount(last.files, doc, last.result.v) = 1
    /\ TraceWarningCount(last.result.v) = 1

\* C18: when the source of a trace resolves and trace.hash is set, a hash
\* that is not, as a string, "sha256:" followed by the hex digest of the
\* bytes makes verify_trace fail with a Verification error, with or without
\* a selector; a hash that is equal passes when there is no selector.
C18_EvidenceHash ==
    ( /\ last.op = "verify_trace"
      /\ FileResolver(last.files).resolve_bytes[last.trace.source].ok
      /\ IsSome(last.trace.hash) )
    => LET bytes == FileResolver(last.files).resolve_bytes[last.trace.source].v
       IN  /\ last.trace.hash.v # "sha256:" \o sha256_hex(bytes)
                => /\ ~last.result.ok
                   /\ last.result.kind = "Verification"
                   /\ last.result.msg = "Hash mismatch for " \o last.trace.source
           /\ ( /\ last.trace.hash.v = "sha256:" \o sha256_hex(bytes)
                /\ ~IsSome(last.trace.selector) )
                => last.result.ok

\* The hash is stale and the selector is no regex: the hash is what
\* verify_trace reports.
C18_Witness ==
    /\ last.op = "verify_trace"
    /\ last.trace.source = "ev.md"
    /\ last.trace.hash = Some(hash_string("Changed"))
    /\ last.trace.selector = Some("(")
    /\ last.result = Err("Verification", "Hash mismatch for ev.md")

\* The trace carries neither hash nor selector.
IsBare(trace) == ~IsSome(trace.hash) /\ ~IsSome(trace.selector)

\* C19 as stated: a trace with neither hash nor selector passes, whatever
\* its source: verify_trace returns Ok and Compiler::verify reports nothing
\* for it.
C19_BareTraceAlwaysPasses ==
    /\ (last.op = "verify_trace" /\ IsBare(last.trace)) => last.result.ok
    /\ ( /\ last.op = "compiler_verify"
         /\ last.result.ok
         /\ IncludePaths(doc) = <<>>
         /\ \A i \in DOMAIN Traces(doc) : IsBare(Traces(doc)[i]) )
       => TraceErrorCount(last.files, doc, last.result.v)
            + TraceWarningCount(last.result.v) = 0

\* C19: a trace with neither hash nor selector passes when its source
\* resolves: verify_trace returns Ok and Compiler::verify reports nothing
\* for it.  When the source does not resolve, verify_trace returns the error
\* of the resolver and Compiler::verify reports it once.
C19_BareTracePasses ==
    /\ (last.op = "verify_trace" /\ IsBare(last.trace)) =>
         LET content == FileResolver(last.files).resolve_bytes[last.trace.source]
         IN  IF content.ok THEN last.result.ok ELSE last.result = content
    /\ ( /\ last.op = "compiler_verify"
         /\ last.result.ok
         /\ IncludePaths(doc) = <<>>
         /\ \A i \in DOMAIN Traces(doc) : IsBare(Traces(doc)[i]) )
       => TraceErrorCount(last.files, doc, last.result.v)
            + TraceWarningCount(last.result.v)
          = Cardinality({ i \in DOMAIN Traces(doc) :
                ~FileResolver(last.files).resolve_bytes[Traces(doc)[i].source].ok })

\* A Published document holds one trace of ev.md with an extractor that
\* does not exist, no hash and no selector: the report holds no error.
C19_Witness ==
    /\ last.op = "compiler_verify"
    /\ doc.frontmatter.doc_status = "Published"
    /\ DOMAIN Traces(doc) # {}
    /\ \A i \in DOMAIN Traces(doc) :
         /\ IsBare(Traces(doc)[i])
         /\ Traces(doc)[i].source = "ev.md"
         /\ Traces(doc)[i].extractor = Some("xpath")
    /\ last.result.ok
    /\ last.result.v.errors = <<>>

\* Some prefix of the components holds more ".." than names; "." is
\* neither.
DipsBelowRoot(components) ==
    \E k \in 1..Len(components) :
       Cardinality({ i \in 1..k : components[i] = ".." })
       > Cardinality({ i \in 1..k : components[i] \notin {"..", "."} })

\* C20: FileResolver rejects a source with PathTraversal before it touches
\* the file system exactly when the source is absolute or some prefix of its
\* components holds more ".." than names.
C20_PathSafety ==
    last.op \in {"validate_path", "resolve_bytes"} =>
      ( ( /\ last.result = SecurityErr("PathTraversal", last.source)
          /\ last.calls = <<>> )
        <=> ( \/ PathOf(last.source).absolute
              \/ DipsBelowRoot(PathOf(last.source).components) ) )

\* a/../../b is rejected with no call of the file system, though b exists.
C20_Witness ==
    /\ last.op = "resolve_bytes"
    /\ last.source = "a/../../b"
    /\ "b" \in DOMAIN last.files
    /\ last.result = SecurityErr("PathTraversal", "a/../../b")
    /\ last.calls = <<>>

\* What the two methods return of the entry they read.
ContentOf(op, entry) == IF op = "resolve_bytes" THEN entry.bytes ELSE entry.doc.v

\* C21 as stated: resolve_bytes and resolve_document return the content of a
\* file below the root only; they fail with PathTraversal when root/source
\* exists and lies outside the root, and with an Io error when it does not
\* exist, whatever the source.
C21_RootConfinementAnySource ==
    last.op \in {"resolve_bytes", "resolve_document"} =>
      /\ last.result.ok =>
           /\ JoinExists(last.files, last.source)
           /\ JoinEntry(last.files, last.source).inside
           /\ last.result.v = ContentOf(last.op, JoinEntry(last.files, last.source))
      /\ ( /\ JoinExists(last.files, last.source)
           /\ ~JoinEntry(last.files, last.source).inside )
         => last.result = SecurityErr("PathTraversal", last.source)
      /\ ~JoinExists(last.files, last.source)
         => (~last.result.ok /\ last.result.kind = "Io")

\* C21: resolve_bytes and resolve_document return the content of a file
\* below the root only; they fail with PathTraversal when root/source exists
\* and lies outside the root, links included.  When it does not exist they
\* fail with PathTraversal if the source is absolute or its components step
\* above the root, and with an Io error otherwise.
C21_RootConfinement ==
    last.op \in {"resolve_bytes", "resolve_document"} =>
      /\ last.result.ok =>
           /\ JoinExists(last.files, last.source)
           /\ JoinEntry(last.files, last.source).inside
           /\ last.result.v = ContentOf(last.op, JoinEntry(last.files, last.source))
      /\ ( /\ JoinExists(last.files, last.source)
           /\ ~JoinEntry(last.files, last.source).inside )
         => last.result = SecurityErr("PathTraversal", last.source)
      /\ ~JoinExists(last.files, last.source)
         => IF \/ PathOf(last.source).absolute
               \/ DipsBelowRoot(PathOf(last.source).components)
            THEN last.result = SecurityErr("PathTraversal", last.source)
            ELSE ~last.result.ok /\ last.result.kind = "Io"

\* a/b is a link below the root to a file outside: the file system is asked
\* and the source is refused.
C21_Witness ==
    /\ last.op = "resolve_bytes"
    /\ last.source = "a/b"
    /\ JoinExists(last.files, "a/b")
    /\ ~JoinEntry(last.files, "a/b").inside
    /\ ~JoinEntry(last.files, "a/b").dir
    /\ last.calls = <<"exists", "canonicalize">>
    /\ last.result = SecurityErr("PathTraversal", "a/b")

\* The source leads out of the base directory: it is absolute, or its
\* components step above it.
LeavesBase(source) ==
    \/ PathOf(source).absolute
    \/ DipsBelowRoot(PathOf(source).components)

\* C22 as stated: update_all_traces(base_path) reads and hashes no file
\* outside base_path, and fails when the source of a trace is absolute or
\* steps above base_path through "..".
C22_NoEvidenceOutsideRoot ==
    ( /\ last.op = "update_all_traces"
      /\ "files" \in DOMAIN last )
    => /\ last.result.ok =>
            \A i \in DOMAIN Traces(pre) :
               JoinEntry(last.files, Traces(pre)[i].source).inside
       /\ (\E i \in DOMAIN Traces(pre) : LeavesBase(Traces(pre)[i].source))
            => ~last.result.ok

\* C23: update_all_traces changes the body only: version_hash, signature
\* and every other frontmatter field are after the call what they were
\* before it, whether it returns Ok or Err; when it returns Err the body is
\* as before too.
C23_UpdateTracesFrame ==
    last.op = "update_all_traces" =>
      /\ doc.frontmatter = pre.frontmatter
      /\ ~last.result.ok => doc = pre

\* A sealed, Published document whose trace carries a stale hash: the body
\* is rewritten and the seal stays as it was.
C23_Witness ==
    /\ last.op = "update_all_traces"
    /\ last.result.ok
    /\ pre.frontmatter.doc_status = "Published"
    /\ IsSome(pre.frontmatter.version_hash)
    /\ IsSome(pre.frontmatter.signature)
    /\ doc.body # pre.body
    /\ doc.frontmatter = pre.frontmatter

\* C24: after a successful update_all_traces the body parses to the same
\* row of section kinds as before; every Paragraph and Include carries the
\* text it carried, and every Trace is the trace it was but for hash, which
\* is "sha256:" and the hex digest of the bytes of its source.
C24_SectionsPreserved ==
    (last.op = "update_all_traces" /\ last.result.ok) =>
      LET before == parse_tmd_sections(pre.body)
          after == parse_tmd_sections(doc.body)
      IN  /\ Len(after) = Len(before)
          /\ \A i \in 1..Len(before) :
               /\ after[i].kind = before[i].kind
               /\ before[i].kind \in {"Paragraph", "Include"}
                    => after[i].text = before[i].text
               /\ before[i].kind = "Trace"
                    => after[i].trace
                       = [ before[i].trace EXCEPT
                             !.hash = Some("sha256:" \o sha256_hex(
                                 JoinEntry(last.files,
                                           before[i].trace.source).bytes)) ]

\* Prose, a trace with a stale hash and an include block, in this order.
C24_Witness ==
    /\ last.op = "update_all_traces"
    /\ last.result.ok
    /\ pre.body = <<"Intro.", "LF">> \o BodyStale
                   \o IncludeText("leaf.tmd") \o <<"LF">>
    /\ doc.body # pre.body
    /\ Len(parse_tmd_sections(doc.body)) = 3
    /\ parse_tmd_sections(doc.body)[2].kind = "Trace"
    /\ parse_tmd_sections(doc.body)[2].trace.hash = Some(hash_string("Verified"))

\* C25: two documents that agree on the body and on every frontmatter field
\* but version_hash and signature have the same computed version hash.
C25_HashIgnoresSeal ==
    last.op = "seal_fields" =>
      compute_version_hash(doc) = compute_version_hash(pre)

\* A sealed document and the same document with another version_hash and
\* no signature.
C25_Witness ==
    /\ last.op = "seal_fields"
    /\ IsSome(pre.frontmatter.version_hash)
    /\ IsSome(pre.frontmatter.signature)
    /\ IsSome(doc.frontmatter.version_hash)
    /\ doc.frontmatter.version_hash # pre.frontmatter.version_hash
    /\ doc.frontmatter.signature = None
    /\ doc.body = pre.body
    /\ compute_version_hash(doc) = compute_version_hash(pre)

\* C26 as stated: canonicalize_text of a canonical text returns it as it
\* is, also when a removed character follows trailing white space or stands
\* between CR and LF, and when the text ends in several blank lines.
C26_Idempotent ==
    last.op = "canonicalize_again" => last.result = last.first

\* The characters of the model that canonicalize_text bans: U+0000, U+200B
\* and U+FEFF.
Banned == {"NUL", "ZWSP", "BOM"}

\* The index of the line feed that ends the line of text[i], or one past the
\* end of the text.
LineEnd(text, i) ==
    IF \E j \in i..Len(text) : text[j] = "LF"
    THEN CHOOSE j \in i..Len(text) :
           text[j] = "LF" /\ \A k \in i..(j - 1) : text[k] # "LF"
    ELSE Len(text) + 1

\* text[i] is no trailing white space of its line and no part of its line
\* break: a character that is no white space follows it on the line.
InsideLine(text, i) ==
    \E j \in (i + 1)..(LineEnd(text, i) - 1) : ~is_whitespace(text[j])

CountOf(text, t) == Cardinality({ i \in 1..Len(text) : text[i] = t })

\* C27: the output of canonicalize_text holds no banned character, and holds
\* every tab and CR of the input that is neither trailing white space of
\* its line nor part of a line break (a line feed always is one).
C27_BannedRemoved ==
    last.op = "canonicalize_text" =>
      /\ \A i \in 1..Len(last.result) : last.result[i] \notin Banned
      /\ \A t \in {"TAB", "CR"} :
           CountOf(last.result, t)
           = Cardinality({ i \in 1..Len(last.text) :
                             last.text[i] = t /\ InsideLine(last.text, i) })

\* A tab, a banned character and a CR before a letter: the banned one goes,
\* the tab and the CR stay.
C27_Witness ==
    /\ last.op = "canonicalize_text"
    /\ last.text = <<"TAB", "NUL", "CR", "a">>
    /\ last.result = <<"TAB", "CR", "a", "LF">>

\* C28 as stated: the output of canonicalize_text is empty or ends with one
\* line feed and no more, also when the input ends in several blank lines.
C28_OneFinalNewline ==
    last.op = "canonicalize_text" =>
      \/ last.result = <<>>
      \/ /\ last.result[Len(last.result)] = "LF"
         /\ Len(last.result) >= 2 => last.result[Len(last.result) - 1] # "LF"

\* The line that closes the frontmatter as the format states it: the first
\* line after the first that holds three dashes and nothing else, 0 when
\* the text has none.
ClosingLine(content) ==
    LET ls == lines(content)
        closing == { k \in 2..Len(ls) : ls[k] = Dashes }
    IN  IF closing = {} THEN 0
        ELSE CHOOSE k \in closing : \A j \in closing : k <= j

\* C29: parse_tmd accepts only a text whose first three characters are
\* three dashes, and ends the frontmatter at the next line that holds three
\* dashes and nothing else: a text with anything before the first dashes is
\* refused with a Format error, the title is the whole value of the title
\* line whatever dashes it holds, and the body is what follows the closing
\* line.
C29_FrontmatterDelimiters ==
    last.op = "parse_tmd" =>
      LET content == last.content
          ls == lines(content)
          k == ClosingLine(content)
      IN  /\ (Len(content) < 3 \/ SubSeq(content, 1, 3) # Dashes) =>
                ~last.result.ok /\ last.result.kind = "Format"
          /\ last.result.ok =>
                /\ k # 0
                /\ \E i \in 2..(k - 1) :
                      /\ ls[i][1] = "title:"
                      /\ last.result.v.frontmatter.title = EntryValue(ls[i])
                /\ last.result.v.body = trim(join(SubSeq(ls, k + 1, Len(ls))))

\* C30: verify returns the first failure of a fixed row of checks: a
\* Verification error when protocol_version is none of "1.0", "1.1", "2.0";
\* else a Verification error when version_hash or signature is missing;
\* else a Verification error when the hash computed anew differs from the
\* stored one; else a Crypto error when the signature does not verify under
\* the given key; else Ok.
C30_VerifyPriority ==
    last.op = "verify_with" =>
      LET fm == doc.frontmatter
          public_key == verifying_key(last.keypair)
      IN  IF fm.protocol_version \notin {"1.0", "1.1", "2.0"}
          THEN ~last.result.ok /\ last.result.kind = "Verification"
          ELSE IF fm.version_hash = None \/ fm.signature = None
          THEN ~last.result.ok /\ last.result.kind = "Verification"
          ELSE IF compute_version_hash(doc) # fm.version_hash.v
          THEN ~last.result.ok /\ last.result.kind = "Verification"
          ELSE IF ~verify_strict(public_key, fm.version_hash.v, fm.signature.v)
          THEN ~last.result.ok /\ last.result.kind = "Crypto"
          ELSE last.result = Ok("unit")

\* A document sealed with one key and not touched since is verified with
\* the other key: the hashes agree and the signature is refused.
C30_Witness ==
    /\ last.op = "verify_with"
    /\ last.subject.op = "seal"
    /\ last.subject.keypair = "k1"
    /\ last.keypair = "k2"
    /\ doc.frontmatter.protocol_version = "1.0"
    /\ compute_version_hash(doc) = doc.frontmatter.version_hash.v
    /\ last.result = Err("Crypto", "Authenticity check failed")

\* Two reports in a row.
ReportConcat(a, b) ==
    [errors |-> a.errors \o b.errors, warnings |-> a.warnings \o b.warnings]

RECURSIVE TraversalReport(_, _, _, _)

\* The entries of one section of d in traversal order: those of a trace,
\* or, for an include block, the policy error of the included document and
\* then the entries of that document.
SectionReport(resolver, d, section, depth, seen) ==
    IF section.kind = "Trace"
    THEN trace_outcome(d, EmptyReport, verify_trace(resolver, section.trace))
    ELSE IF section.kind = "Include"
    THEN LET include == include_from_section(section.text)
         IN  IF ~include.ok
             THEN PushError(EmptyReport,
                      Err("Format", "Invalid include block: " \o include.msg))
             ELSE LET path == include.v.path
                      included_doc == resolver.resolve_document[path]
                  IN  IF ~included_doc.ok
                      THEN PushError(EmptyReport,
                               Err("Resolution",
                                   "Failed to resolve include " \o path))
                      ELSE ReportConcat(
                               policy_check(EmptyReport, included_doc.v, path),
                               TraversalReport(resolver, included_doc.v,
                                               depth + 1, seen \cup {path}))
    ELSE EmptyReport

RECURSIVE SectionsReport(_, _, _, _, _)
SectionsReport(resolver, d, sections, depth, seen) ==
    IF sections = <<>> THEN EmptyReport
    ELSE ReportConcat(SectionReport(resolver, d, sections[1], depth, seen),
                      SectionsReport(resolver, d, Tail(sections), depth, seen))

\* The entries of d in traversal order: its signature check, then its
\* sections from the first to the last.
TraversalReport(resolver, d, depth, seen) ==
    ReportConcat(signature_check(d).v,
                 SectionsReport(resolver, d, parse_tmd_sections(d.body),
                                depth, seen))

BetweenBlocks(text) ==
    /\ text = <<>> \/ text[Len(text)] = "LF"
    /\ ~ParseLines(ParserStart, lines(text)).in_block

\* The block of the body is a closed trace block that does not parse, made
\* of whole lines, at a place where no block is open.
MalformedBlockParsed ==
    /\ last.op = "parse_tmd_sections"
    /\ last.block \in MalformedBlocks
    /\ ~parse_trace_block(last.block).ok
    /\ BetweenBlocks(last.before)
    /\ last.block[Len(last.block)] = "LF" \/ last.after = <<>>

\* The lines of a text, each ended by one line feed.
RECURSIVE LinesEnded(_)
LinesEnded(ls) ==
    IF ls = <<>> THEN <<>> ELSE ls[1] \o <<"LF">> \o LinesEnded(Tail(ls))

\* C32 as stated: a closed trace block whose content does not parse is
\* emitted as a Paragraph that carries the raw text of the block, both
\* fence lines included, at the place of the block among the sections.
C32_MalformedKeptRaw ==
    MalformedBlockParsed =>
      last.result = parse_tmd_sections(last.before)
                    \o <<Paragraph(last.block)>>
                    \o parse_tmd_sections(last.after)

\* C32: a closed trace block whose content does not parse is emitted, at
\* the place of the block among the sections, as a Paragraph that carries
\* the lines of the block, both fence lines included, each ended by one
\* line feed.
C32_MalformedKept ==
    MalformedBlockParsed =>
      last.result = parse_tmd_sections(last.before)
                    \o <<Paragraph(LinesEnded(lines(last.block)))>>
                    \o parse_tmd_sections(last.after)

\* A block without mapping between a trace that parses and prose: three
\* sections, the block the second.
C32_Witness ==
    /\ MalformedBlockParsed
    /\ last.before = GoodBlock
    /\ last.block = <<"SP", "~~~trace", "LF", "nonsense", "LF", "TAB", "~~~", "SP", "LF">>
    /\ last.after = <<"Tail.">>
    /\ Len(last.result) = 3
    /\ last.result[1].kind = "Trace"
    /\ last.result[2] = Paragraph(last.block)
    /\ last.result[3] = Paragraph(<<"Tail.", "LF">>)

\* The sections a are the first of the sections b.
IsPrefix(a, b) == Len(a) <= Len(b) /\ SubSeq(b, 1, Len(a)) = a

\* The sections after the text pending in the parser state w is flushed as
\* the claim states it: a Paragraph, when the text is not blank.
Flushed(w) ==
    IF \E i \in 1..Len(w.current) : ~is_whitespace(w.current[i])
    THEN w.sections \o <<Paragraph(w.current)>>
    ELSE w.sections

\* C33: the fence state machine of parse_tmd_sections.  Sections are
\* produced in input order; a trace or include fence opens a block only
\* when no block is open, and flushes the pending paragraph first when and
\* only when it is not blank; the block closes at the first following line
\* whose left-trimmed form starts with a fence; the text left at the end of
\* the input, a block that was never closed included, becomes a last
\* Paragraph when and only when it is not blank, never a Trace or Include.
C33_FenceStateMachine ==
    /\ last.op = "line" =>
         LET w == last.was
             st == last.st
             s == trim_start(last.line)
             fence == starts_with(s, "~~~")
             opens == starts_with(s, "~~~trace") \/ starts_with(s, "~~~include")
         IN  /\ IsPrefix(w.sections, st.sections)
             /\ (~w.in_block /\ opens) =>
                   /\ st.in_block
                   /\ st.block_type =
                        (IF starts_with(s, "~~~trace") THEN "trace" ELSE "include")
                   /\ st.sections = Flushed(w)
                   /\ st.current = last.line \o <<"LF">>
             /\ (~w.in_block /\ ~opens) =>
                   /\ ~st.in_block
                   /\ st.sections = w.sections
                   /\ st.current = w.current \o last.line \o <<"LF">>
             /\ (w.in_block /\ ~fence) =>
                   /\ st.in_block
                   /\ st.block_type = w.block_type
                   /\ st.sections = w.sections
                   /\ st.current = w.current \o last.line \o <<"LF">>
             /\ (w.in_block /\ fence) =>
                   /\ ~st.in_block
                   /\ st.current = <<>>
                   /\ Len(st.sections) = Len(w.sections) + 1
                   /\ LET made == st.sections[Len(st.sections)]
                          block == w.current \o last.line \o <<"LF">>
                      IN  IF w.block_type = "include"
                          THEN made = Include(block)
                          ELSE \/ made = Paragraph(block)
                               \/ /\ made.kind = "Trace"
                                  /\ parse_trace_block(block) = Ok(made.trace)
    /\ last.op = "end" =>
         /\ last.result = Flushed(last.was)
         /\ last.result = parse_tmd_sections(BodyOf(last))

\* Prose, a block that does not parse, then a trace block that is never
\* closed: three Paragraphs, the open block the last.
C33_Witness ==
    /\ last.op = "end"
    /\ last.before = <<"Intro.", "LF">>
    /\ last.block = <<"~~~trace", "LF", "nonsense", "LF", "~~~", "LF">>
    /\ last.after = <<"~~~trace", "LF", "source: ev.md", "LF">>
    /\ last.was.in_block
    /\ last.result =
         << Paragraph(<<"Intro.", "LF">>),
            Paragraph(last.block),
            Paragraph(last.after) >>

\* The keys the reserved fields of the frontmatter are hashed under.
ReservedKeys ==
    { "id", "title", "author", "public_key", "policy_allow_include",
      "policy_allow_quote", "policy_require_attribution", "created_at",
      "modified_at", "doc_status", "protocol_version", "doc_version",
      "prev_version_hash" }

\* The keys of extra that are reserved keys.
Shadowed(d) ==
    IF IsSome(d.frontmatter.extra)
    THEN DOMAIN d.frontmatter.extra.v \cap ReservedKeys
    ELSE {}

\* C34: a key of extra that equals a reserved key wins: the hashed mapping
\* holds the value of extra under it, seal returns a sealed document all the
\* same, and a document that differs from the sealed one only in the
\* shadowed field has the same version hash.
C34_ExtraShadows ==
    /\ \A key \in Shadowed(doc) :
         compute_version_hash(doc).fm[key] = doc.frontmatter.extra.v[key]
    /\ (last.op = "seal" /\ Shadowed(pre) # {}) =>
         /\ Shadowed(doc) = Shadowed(pre)
         /\ doc.frontmatter.version_hash = Some(compute_version_hash(doc))
    /\ (last.op = "tamper" /\ last.field \in Shadowed(pre)) =>
         compute_version_hash(doc) = compute_version_hash(pre)

\* A sealed document whose extra map holds doc_version and doc_status: its
\* doc_version is changed and verify accepts it as sealed.
C34_Witness ==
    /\ last.op = "verify"
    /\ last.subject.op = "tamper"
    /\ last.subject.field = "doc_version"
    /\ Shadowed(doc) = {"doc_version", "doc_status"}
    /\ doc.frontmatter.doc_version # pre.frontmatter.doc_version
    /\ doc.frontmatter.doc_status = "Published"
    /\ compute_version_hash(doc).fm["doc_status"] = "draft"
    /\ last.result = Ok("unit")

\* The elements of a sequence.
Range(q) == { q[i] : i \in 1..Len(q) }

\* C35: on every entry of verify_recursive at depth d, seen holds the d
\* include paths of the calls the entry stands in, all distinct, and nothing
\* else (the root document is not among them); a path that was added is
\* removed once its include block is handled, also when it did not resolve,
\* so seen is empty whenever Compiler::verify returns Ok(report).
C35_SeenIsStack ==
    last.op = "compiler_verify_log" =>
      /\ last.log.ok = last.result.ok
      /\ \A e \in last.log.entries :
           e.kind = "entry" =>
             /\ Len(e.stack) = e.depth
             /\ e.seen = Range(e.stack)
             /\ Cardinality(e.seen) = e.depth
      /\ last.result.ok => last.log.seen = {}

\* A chain of three documents whose last one includes a missing document:
\* verify returns a report with the Resolution error, the third document was
\* entered with the three paths in seen, and seen is empty at the end.
C35_Witness ==
    /\ last.op = "compiler_verify_log"
    /\ last.result.ok
    /\ Len(last.result.v.errors) = 1
    /\ last.result.v.errors[1].kind = "Resolution"
    /\ LogEvent("entry", 3, {"c1.tmd", "c2.tmd", "c3.tmd"},
                <<"c1.tmd", "c2.tmd", "c3.tmd">>) \in last.log.entries
    /\ last.log.seen = {}

\* C36: Compiler::verify returns for every document and every resolver,
\* also one whose include graph never ends or runs in a circle:
\* verify_recursive is never entered at a depth above 6, and an entry at
\* depth 6 returns at once, the MaxRecursionDepth error the result, without
\* a call of parse_tmd_sections or of the resolver.
C36_DepthBounded ==
    last.op = "compiler_verify_log" =>
      /\ \A e \in last.log.entries :
           /\ e.depth <= 6
           /\ e.kind \in {"parse", "resolve"} => e.depth <= 5
      /\ (\E e \in last.log.entries : e.kind = "entry" /\ e.depth = 6) =>
           /\ last.result = SecurityErr("MaxRecursionDepth", "5")
           /\ ~last.log.ok

\* A chain of seven documents under a new one: the sixth is entered at
\* depth 6 and the seventh is never asked for.
C36_Witness ==
    /\ last.op = "compiler_verify_log"
    /\ doc.frontmatter.title = "Root"
    /\ "c7.tmd" \in DOMAIN last.files
    /\ \E e \in last.log.entries :
         /\ e.kind = "entry"
         /\ e.depth = 6
         /\ e.stack[6] = "c6.tmd"
    /\ \A e \in last.log.entries : e.stack = <<>> \/ e.stack[Len(e.stack)] # "c7.tmd"
    /\ last.result = SecurityErr("MaxRecursionDepth", "5")

\* C37 as stated: once a document is Revoked, no sequence of seal,
\* Compiler::update, Compiler::publish and Compiler::revoke yields a
\* document with status Published.
C37_RevocationPermanent ==
    ( \E i \in 1..Len(history) :
        /\ history[i] = "revoke"
        /\ \A j \in (i + 1)..Len(history) :
             history[j] \in {"seal", "update", "publish", "revoke"} )
    => doc.frontmatter.doc_status # "Published"

\* C38 as stated: whenever Compiler::publish returns Ok(d) and the files
\* are unchanged, Compiler::verify(d) with the same resolver returns a
\* report without errors.
C38_PublishedVerifiesClean ==
    (last.op = "publish" /\ last.result.ok) =>
      /\ compiler_verify(Resolver, doc).ok
      /\ compiler_verify(Resolver, doc).v.errors = <<>>

\* C39: update_all_traces is all or nothing: when it returns an error, the
\* body and the frontmatter of the document are as before the call, also
\* when trace blocks earlier in the body were hashed before the failure.
C39_AllOrNothing ==
    (last.op = "update_all_traces" /\ ~last.result.ok) => doc = pre

\* A trace into ev.md, then a trace into a missing file: the first was
\* hashed and written to new_body when the second failed, and the document
\* is as before.
C39_Witness ==
    /\ last.op = "update_all_traces"
    /\ last.result = Err("Resolution", "Source file not found: gone.md")
    /\ Len(parse_tmd_sections(pre.body)) = 2
    /\ parse_tmd_sections(pre.body)[1].kind = "Trace"
    /\ parse_tmd_sections(pre.body)[1].trace.hash = None
    /\ Len(parse_tmd_sections(
             new_body_at_exit(last.files, parse_tmd_sections(pre.body), <<>>))) = 1
    /\ parse_tmd_sections(
           new_body_at_exit(last.files, parse_tmd_sections(pre.body),
                            <<>>))[1].trace.hash = Some(hash_string("Verified"))
    /\ doc = pre

\* The hash mismatch verify_trace reports for a trace.
HashMismatch(trace) ==
    Err("Verification", "Hash mismatch for " \o trace.source)

\* C40: after update_all_traces(base) returned Ok and with the files
\* unchanged, Compiler::verify with a FileResolver rooted at base finds no
\* hash mismatch for a trace of the document: the hash update_all_traces
\* wrote is the one the verifier computes from the bytes it reads, and the
\* report of a document without include blocks holds no hash mismatch.
C40_UpdateThenVerify ==
    last.op = "verify_updated" =>
      LET resolver == FileResolver(last.files)
          sections == parse_tmd_sections(doc.body)
          traces == { i \in 1..Len(sections) : sections[i].kind = "Trace" }
      IN  /\ \A i \in traces :
                /\ verify_trace(resolver, sections[i].trace)
                     # HashMismatch(sections[i].trace)
                /\ IsSome(sections[i].trace.hash)
                /\ resolver.resolve_bytes[sections[i].trace.source].ok =>
                     sections[i].trace.hash.v =
                       hash_string(
                         resolver.resolve_bytes[sections[i].trace.source].v)
          /\ ( /\ last.result.ok
               /\ \A i \in 1..Len(sections) : sections[i].kind # "Include" ) =>
                /\ \A i \in traces, j \in 1..Len(last.result.v.errors) :
                      last.result.v.errors[j] # HashMismatch(sections[i].trace)
                /\ \A i \in traces, j \in 1..Len(last.result.v.warnings) :
                      last.result.v.warnings[j]
                        # TraceWarning(HashMismatch(sections[i].trace))

\* A Published document whose trace carried a stale hash: before the update
\* verify reports the mismatch, after it the report is empty.
C40_Witness ==
    /\ last.op = "verify_updated"
    /\ doc.frontmatter.doc_status = "Published"
    /\ Len(parse_tmd_sections(pre.body)) = 1
    /\ parse_tmd_sections(pre.body)[1].kind = "Trace"
    /\ parse_tmd_sections(pre.body)[1].trace.hash = Some(hash_string("Changed"))
    /\ parse_tmd_sections(doc.body)[1].trace.hash = Some(hash_string("Verified"))
    /\ verify_trace(FileResolver(last.files), parse_tmd_sections(pre.body)[1].trace)
         = HashMismatch(parse_tmd_sections(pre.body)[1].trace)
    /\ verify_trace(FileResolver(last.files), parse_tmd_sections(doc.body)[1].trace).ok

====
